---- MODULE Spec2Model ----
(***************************************************************************)
(* Reference-data API (countries, currencies): the persistence layer       *)
(* (BaseModel), the per-entity models and domain classes, the Express      *)
(* route handlers, the pagination extractor and the global error handler.  *)
(*                                                                         *)
(* Strings are sequences of one-character strings, so that trim(),         *)
(* toUpperCase() and the schema regexes are computed, not assumed.         *)
(* JavaScript values carry their runtime type (undefined / bool / string / *)
(* number) because the code's behaviour depends on it.                     *)
(***************************************************************************)
EXTENDS Integers, Sequences, FiniteSets, TLC

VARIABLES
    currency,      \* rows of table xf_currency
    currencySeq,   \* last id handed out by the table's autoIncrement sequence
    country,       \* rows of table xf_country
    countrySeq,    \* last id handed out by the table's autoIncrement sequence
    obj,           \* a Currency domain object held by a caller
    objLog,        \* what the last operation on obj did
    resp,          \* the last HTTP response written
    last,          \* the last request handled: kind, outcome, table before it
    deleted,       \* rows removed by a successful delete, ever
    nodeEnv,       \* process.env.NODE_ENV
    nRows,         \* number of rows of the table a list request reads
    page,          \* the pagination of the last answer, if it was a list
    tenant,        \* rows of table xf_tenant (id, guid, subdomain)
    tenantSeq,     \* last id handed out by that table's sequence
    reqs,          \* the POST /currency requests in flight, one per client
    registry,      \* TableInitializer: its static fields and what it has done
    cycle,         \* a billing record and what validation said of it
    app            \* the App object, the Db connection and the process around them

vars == <<currency, currencySeq, country, countrySeq, obj, objLog, resp, last,
          deleted, nodeEnv, nRows, page, tenant, tenantSeq, reqs, registry, cycle,
          app>>

(***************************************************************************)
(* Bounds of the model                                                     *)
(***************************************************************************)
MaxId == 2

(***************************************************************************)
(* HTTP status codes                                                       *)
(***************************************************************************)
SUCCESS == 200
CREATED == 201
BAD_REQUEST == 400
NOT_FOUND == 404
CONFLICT == 409
INTERNAL_ERROR == 500

(***************************************************************************)
(* Strings                                                                 *)
(***************************************************************************)
LowerAlpha == <<"a","b","c","d","e","f","g","h","i","j","k","l","m",
                "n","o","p","q","r","s","t","u","v","w","x","y","z">>
UpperAlpha == <<"A","B","C","D","E","F","G","H","I","J","K","L","M",
                "N","O","P","Q","R","S","T","U","V","W","X","Y","Z">>
DigitChars == <<"0","1","2","3","4","5","6","7","8","9">>

UpperOf == [c \in {LowerAlpha[i] : i \in 1..26} |->
               UpperAlpha[CHOOSE i \in 1..26 : LowerAlpha[i] = c]]
LowerOf == [c \in {UpperAlpha[i] : i \in 1..26} |->
               LowerAlpha[CHOOSE i \in 1..26 : UpperAlpha[i] = c]]
DigitValOf == [c \in {DigitChars[i] : i \in 1..10} |->
                  (CHOOSE i \in 1..10 : DigitChars[i] = c) - 1]

IsUpperCh(c) == c \in DOMAIN LowerOf
IsLowerCh(c) == c \in DOMAIN UpperOf
IsDigitCh(c) == c \in DOMAIN DigitValOf

ToUpperCase(s) == [i \in 1..Len(s) |-> IF IsLowerCh(s[i]) THEN UpperOf[s[i]] ELSE s[i]]
ToLowerCase(s) == [i \in 1..Len(s) |-> IF IsUpperCh(s[i]) THEN LowerOf[s[i]] ELSE s[i]]

RECURSIVE TrimStart(_)
TrimStart(s) ==
    IF s # <<>> /\ Head(s) = " " THEN TrimStart(Tail(s)) ELSE s
\* String.prototype.trim
RECURSIVE StrTrim(_)
StrTrim(s) ==
    IF s # <<>> /\ s[Len(s)] = " " THEN StrTrim(SubSeq(s, 1, Len(s) - 1))
    ELSE TrimStart(s)

\* a test for capital letters that every string passes
AllUpper_Any(s) == TRUE

AllUpper(s) == \A i \in 1..Len(s) : IsUpperCh(s[i])
AllLower(s) == \A i \in 1..Len(s) : IsLowerCh(s[i])
AllDigits(s) == \A i \in 1..Len(s) : IsDigitCh(s[i])

\* the value of a string of digits
RECURSIVE ParseInt(_)
ParseInt(s) ==
    IF s = <<>> THEN 0
    ELSE 10 * ParseInt(SubSeq(s, 1, Len(s) - 1)) + DigitValOf[s[Len(s)]]
\* the decimal digits of a natural number
RECURSIVE DigitsOf(_)
DigitsOf(n) ==
    IF n < 10 THEN <<DigitChars[n + 1]>>
    ELSE DigitsOf(n \div 10) \o <<DigitChars[(n % 10) + 1]>>

\* evaluates x once and hands the value to F
With(F(_), x) == CHOOSE r \in {F(v) : v \in {x}} : TRUE

(***************************************************************************)
(* JavaScript values                                                       *)
(***************************************************************************)
Undefined == [t |-> "undefined"]
JNull == [t |-> "null"]
JBool(b) == [t |-> "bool", b |-> b]
JStr(s) == [t |-> "str", s |-> s]
JNum(n) == [t |-> "num", n |-> n]
JText(x) == [t |-> "text", x |-> x]

IsUndefined(v) == v.t = "undefined"
Truthy(v) ==
    CASE v.t = "undefined" -> FALSE
      [] v.t = "null" -> FALSE
      [] v.t = "bool" -> v.b
      [] v.t = "str" -> v.s # <<>>
      [] v.t = "num" -> v.n # 0
      [] v.t = "text" -> v.x # ""
ValueToString(v) ==
    CASE v.t = "str" -> v.s
      [] v.t = "num" -> DigitsOf(v.n)
      [] v.t = "bool" -> IF v.b THEN <<"t","r","u","e">> ELSE <<"f","a","l","s","e">>
      [] v.t = "undefined" -> <<"u","n","d","e","f","i","n","e","d">>
      [] v.t = "null" -> <<"n","u","l","l">>

(***************************************************************************)
(* Errors.  A message is a sequence of text fragments, so that the wrapper *)
(* `new Error(error)` of save() can prefix the name of the error it wraps. *)
(* String.prototype.includes on a message is computed per fragment from    *)
(* the fragments' text.                                                    *)
(***************************************************************************)
NoError == [name |-> "", message |-> <<>>]
Err(name, text) == [name |-> name, message |-> <<text>>]
IsError(e) == e.name # ""

\* the messages CurrencyModel throws
CurMsg ==
    [code |-> "Currency code must be exactly 3 uppercase letters (ISO 4217)",
     name |-> "Currency name must be between 2 and 128 characters",
     symbol |-> "Valid symbol is required for currency",
     decimal |-> "Decimal places must be a number between 0 and 10",
     active |-> "active must be a boolean value",
     guid |-> "Failed to generate GUID for currency entry",
     exists |-> "Currency code '${this.code}' already exists",
     create |-> "Failed to create currency entry",
     idRequired |-> "Currency ID is required for update",
     update |-> "Failed to update currency entry"]

\* the messages that arise in the currency schema: the unique indexes, the
\* TypeError of cleanData, the attribute validators
CurDbMsg ==
    [guidUnique |-> "Currency GUID must be unique",
     unique |-> "CODE must be unique",
     trim |-> "data.decimal_places.trim is not a function",
     name |-> "Validation error: Validation len on name failed",
     symbol |-> "Validation error: Validation len on symbol failed",
     decimalMax |-> "Validation error: Validation max on decimal_places failed",
     decimalInt |-> "Validation error: Validation isInt on decimal_places failed",
     code |-> "Validation error: Validation is on code failed"]

\* the messages CountryModel throws
CtyMsg ==
    [code |-> "Country code must be exactly 2 uppercase letters (ISO 3166-1 alpha-2)",
     nameEn |-> "Country name (English) must be between 2 and 128 characters",
     nameLocal |-> "Country local name must be between 2 and 128 characters",
     currency |-> "Currency code is required and must be a valid ISO 4217 code (3 uppercase letters)",
     language |-> "Language code is required and must be a valid ISO 639-1 code (2 lowercase letters)",
     timezone |-> "Invalid timezone format. Use Continent/City or UTC+/-offset format",
     phone |-> "Phone prefix is required and must follow the format +XXX (1-5 digits after +)",
     active |-> "active must be a boolean value",
     guid |-> "Failed to generate GUID for country entry",
     exists |-> "Country code '${this.code}' already exists",
     idRequired |-> "Country ID is required for update",
     update |-> "Failed to update country entry"]

\* the messages that arise in the country schema
CtyDbMsg ==
    [nameEn |-> "Validation error: Validation len on name_en failed",
     nameLocal |-> "Validation error: Validation len on name_local failed",
     guidUnique |-> "Country GUID must be unique",
     code |-> "Validation error: Validation is on code failed",
     unique |-> "ISO must be unique",
     currencyCode |-> "Validation error: Validation is on default_currency_code failed",
     languageCode |-> "Validation error: Validation is on default_language_code failed",
     timezoneLen |-> "Validation error: Validation len on timezone_default failed",
     timezone |-> "Validation error: Validation is on timezone_default failed",
     phone |-> "Validation error: Validation is on phone_prefix failed"]

\* the fragments that contain the substring 'already exists'
FragmentsWithAlreadyExists == {CurMsg.exists, CtyMsg.exists}
\* the fragments that contain the substring 'code' (case-sensitive)
FragmentsWithCode ==
    {CurMsg.code, CurMsg.exists, CurDbMsg.code, CtyMsg.code, CtyMsg.exists,
     CtyMsg.currency, CtyMsg.language, CtyDbMsg.currencyCode, CtyDbMsg.languageCode}

MessageIncludes(message, fragments) ==
    \E i \in 1..Len(message) : message[i] \in fragments

\* save(): catch (error) { throw new Error(error) } -- String(error) is
\* "<name>: <message>"
SaveWrap(e) == [name |-> "Error", message |-> <<e.name, ": ">> \o e.message]

\* what an error is about, read off the text it carries: the messages of the
\* existence check and of the unique indexes
IsUniqueError(e) ==
    MessageIncludes(e.message,
        {CurMsg.exists, CtyMsg.exists, CurDbMsg.unique, CtyDbMsg.unique,
         CurDbMsg.guidUnique, CtyDbMsg.guidUnique})
\* the messages of the models' validate() and of the attribute validators
IsValidationError(e) ==
    MessageIncludes(e.message,
        {CurMsg.code, CurMsg.name, CurMsg.symbol, CurMsg.decimal, CurMsg.active,
         CurDbMsg.name, CurDbMsg.symbol, CurDbMsg.decimalMax, CurDbMsg.decimalInt,
         CurDbMsg.code,
         CtyMsg.code, CtyMsg.nameEn, CtyMsg.nameLocal, CtyMsg.currency, CtyMsg.language,
         CtyMsg.timezone, CtyMsg.phone, CtyMsg.active, CtyDbMsg.code, CtyDbMsg.nameEn,
         CtyDbMsg.nameLocal, CtyDbMsg.currencyCode, CtyDbMsg.languageCode,
         CtyDbMsg.timezone, CtyDbMsg.timezoneLen, CtyDbMsg.phone})

(***************************************************************************)
(* BaseModel: CRUD primitives over a table (a set of rows)                 *)
(***************************************************************************)
NullRow == [id |-> 0]
IsNull(r) == r.id = 0

\* Model.max('id'); 0 on an empty table
ModelMax(tbl) ==
    IF tbl = {} THEN 0 ELSE CHOOSE x \in {r.id : r \in tbl} : \A r \in tbl : r.id <= x

RECURSIVE Pow10(_)
Pow10(n) == IF n = 0 THEN 1 ELSE 10 * Pow10(n - 1)

\* a generator that counts the rows instead of reading max(id)
guidGenerator_CountsRows(tbl, length) ==
    IF length < 3 THEN 0 ELSE Pow10(length - 1) + Cardinality(tbl) + 1

\* null is modelled as 0 (both are falsy in `if (!guid)`)
guidGenerator(tbl, length) ==
    IF length < 3 THEN 0
    ELSE LET offset == Pow10(length - 1)
             maxId == ModelMax(tbl)
             nextId == maxId + 1
         IN offset + nextId

\* a lookup whose where clause is lost returns the first row it meets
findOne_NoWhere(tbl, field, value) ==
    IF tbl # {} THEN CHOOSE r \in tbl : TRUE ELSE NullRow

findOne(tbl, field, value) ==
    IF \E r \in tbl : r[field] = value
    THEN CHOOSE r \in tbl : r[field] = value
    ELSE NullRow

\* an INSERT into a table whose guid column has no unique index
insertOne_NoGuidIndex(tbl, seq, row, codeMsg, guidMsg) ==
    LET id == seq + 1
        stored == [row EXCEPT !.id = id]
    IN IF \E r \in tbl : r.code = row.code
       THEN [err |-> Err("SequelizeUniqueConstraintError", codeMsg),
             tbl |-> tbl, seq |-> id, row |-> NullRow]
       ELSE [err |-> NoError, tbl |-> tbl \cup {stored}, seq |-> id, row |-> stored]

\* INSERT: the sequence value is consumed before the unique indexes are
\* checked (a failed insert still burns an id)
insertOne(tbl, seq, row, codeMsg, guidMsg) ==
    LET id == seq + 1
        stored == [row EXCEPT !.id = id]
    IN IF \E r \in tbl : r.guid = row.guid
       THEN [err |-> Err("SequelizeUniqueConstraintError", guidMsg),
             tbl |-> tbl, seq |-> id, row |-> NullRow]
       ELSE IF \E r \in tbl : r.code = row.code
       THEN [err |-> Err("SequelizeUniqueConstraintError", codeMsg),
             tbl |-> tbl, seq |-> id, row |-> NullRow]
       ELSE [err |-> NoError, tbl |-> tbl \cup {stored}, seq |-> id, row |-> stored]

\* an update against a table whose code column has no unique index
updateOne_NoUniqueIndex(tbl, values, fields, id, codeMsg) ==
    LET hit == {r \in tbl : r.id = id}
        Apply(r) == [f \in DOMAIN r |-> IF f \in fields THEN values[f] ELSE r[f]]
    IN [err |-> NoError,
        tbl |-> (tbl \ hit) \cup {Apply(r) : r \in hit},
        affected |-> Cardinality(hit)]

\* UPDATE ... WHERE id = :id ; fields is the set of columns in updateData
updateOne(tbl, values, fields, id, codeMsg) ==
    LET hit == {r \in tbl : r.id = id}
        Apply(r) == [f \in DOMAIN r |-> IF f \in fields THEN values[f] ELSE r[f]]
    IN IF "code" \in fields /\ hit # {}
          /\ \E r \in tbl : r.id # id /\ r.code = values.code
       THEN [err |-> Err("SequelizeUniqueConstraintError", codeMsg),
             tbl |-> tbl, affected |-> 0]
       ELSE [err |-> NoError,
             tbl |-> (tbl \ hit) \cup {Apply(r) : r \in hit},
             affected |-> Cardinality(hit)]

\* a delete that reports the rows it matched without removing them
deleteOne_KeepsRow(tbl, id) ==
    LET hit == {r \in tbl : r.id = id}
    IN [tbl |-> tbl, deleted |-> Cardinality(hit) > 0]

deleteOne(tbl, id) ==
    LET hit == {r \in tbl : r.id = id}
    IN [tbl |-> tbl \ hit, deleted |-> Cardinality(hit) > 0]

(***************************************************************************)
(* Currency: schema validators (CurrencyDbStructure.validation)            *)
(***************************************************************************)
CurrencyCodeLen == 3
CurrencyNameMax == 128
CurrencyOrmNameMax == 50
CurrencySymbolMax == 10
CurrencyDecimalMax == 10
GuidLength == 6

\* CurrencyDbStructure.validation: the rule of that name applied to v
CurValidation(rule, v) ==
    CASE rule = "validateCode" ->
             LET trimmed == ToUpperCase(StrTrim(v.s))
             IN Len(trimmed) = CurrencyCodeLen /\ AllUpper(trimmed)
      [] rule = "validateName" ->
             LET trimmed == StrTrim(v.s)
             IN Len(trimmed) >= 2 /\ Len(trimmed) <= CurrencyNameMax
      [] rule = "validateSymbol" ->
             LET trimmed == StrTrim(v.s)
             IN Len(trimmed) >= 1 /\ Len(trimmed) <= CurrencySymbolMax
      \* decimalPlaces.toString().trim() matched against /^[0-9]+$/
      [] rule = "validateDecimalPlaces" ->
             LET trimmed == StrTrim(ValueToString(v))
             IN Len(trimmed) >= 1 /\ AllDigits(trimmed)
      [] rule = "isActive" -> v.t = "bool"

\* cleanData mutates the object field by field; `.trim()` on a number throws
\* after code, name and symbol have been cleaned
CurCleanData(o) ==
    LET o1 == IF Truthy(o.code)
              THEN [o EXCEPT !.code = JStr(ToUpperCase(StrTrim(o.code.s)))] ELSE o
        o2 == IF Truthy(o1.name)
              THEN [o1 EXCEPT !.name = JStr(StrTrim(o1.name.s))] ELSE o1
        o3 == IF Truthy(o2.symbol)
              THEN [o2 EXCEPT !.symbol = JStr(StrTrim(o2.symbol.s))] ELSE o2
        o4 == IF Truthy(o3.decimal_places)
              THEN [o3 EXCEPT !.decimal_places = JStr(StrTrim(o3.decimal_places.s))]
              ELSE o3
        o5 == IF Truthy(o4.active)
              THEN [o4 EXCEPT !.active = JBool(o4.active = JStr(<<"t","r","u","e">>))]
              ELSE o4
    IN IF Truthy(o3.decimal_places) /\ o3.decimal_places.t # "str"
       THEN [err |-> Err("TypeError", CurDbMsg.trim), o |-> o3]
       ELSE [err |-> NoError, o |-> o5]

(***************************************************************************)
(* CurrencyModel                                                           *)
(***************************************************************************)
CurValidate(o) ==
    IF ~Truthy(o.code) \/ ~CurValidation("validateCode", o.code)
    THEN [err |-> Err("Error", CurMsg.code), o |-> o]
    ELSE IF ~Truthy(o.name) \/ ~CurValidation("validateName", o.name)
    THEN [err |-> Err("Error", CurMsg.name), o |-> o]
    ELSE IF ~Truthy(o.symbol) \/ ~CurValidation("validateSymbol", o.symbol)
    THEN [err |-> Err("Error", CurMsg.symbol), o |-> o]
    ELSE IF ~Truthy(o.decimal_places) \/ ~CurValidation("validateDecimalPlaces", o.decimal_places)
    THEN [err |-> Err("Error", CurMsg.decimal), o |-> o]
    ELSE IF ~IsUndefined(o.active) /\ ~CurValidation("isActive", o.active)
    THEN [err |-> Err("Error", CurMsg.active), o |-> o]
    ELSE CurCleanData(o)

\* the validators the ORM runs on the attributes it is given
\* (CurrencyDbStructure.attributes.*.validate); fields: the attributes given
CurOrmValidate(o, fields) ==
    IF "code" \in fields /\ ~(Len(o.code.s) = CurrencyCodeLen /\ AllUpper(o.code.s))
    THEN Err("SequelizeValidationError", CurDbMsg.code)
    ELSE IF "name" \in fields /\ ~(Len(o.name.s) >= 2 /\ Len(o.name.s) <= CurrencyOrmNameMax)
    THEN Err("SequelizeValidationError", CurDbMsg.name)
    ELSE IF "symbol" \in fields
            /\ ~(Len(o.symbol.s) >= 1 /\ Len(o.symbol.s) <= CurrencySymbolMax)
    THEN Err("SequelizeValidationError", CurDbMsg.symbol)
    ELSE IF "decimal_places" \in fields
            /\ ~(LET d == ValueToString(o.decimal_places)
                 IN Len(d) >= 1 /\ AllDigits(d))
    THEN Err("SequelizeValidationError", CurDbMsg.decimalInt)
    ELSE IF "decimal_places" \in fields
            /\ ParseInt(ValueToString(o.decimal_places)) > CurrencyDecimalMax
    THEN Err("SequelizeValidationError", CurDbMsg.decimalMax)
    ELSE NoError

\* the column values the database stores for an object's attributes
CurColumns(o) ==
    [id |-> 0,
     guid |-> IF o.guid.t = "num" THEN o.guid.n ELSE 0,
     code |-> o.code.s,
     name |-> o.name.s,
     symbol |-> o.symbol.s,
     decimal_places |-> ParseInt(ValueToString(o.decimal_places)),
     active |-> IF o.active.t = "bool" THEN o.active.b ELSE TRUE]

\* create(): the insert carries guid, code, name, symbol and decimal_places;
\* `active` is not part of it, the column default (true) applies
CurCreate(o, tbl, seq) ==
  LET Validated(v) ==
    LET guid == guidGenerator(tbl, GuidLength)
        existingCode == findOne(tbl, "code", ToUpperCase(v.o.code.s))
        insertFields == {"guid", "code", "name", "symbol", "decimal_places"}
        orm == CurOrmValidate(v.o, insertFields)
        data == [CurColumns([v.o EXCEPT !.guid = JNum(guid)]) EXCEPT !.active = TRUE]
        Inserted(ins) ==
            IF IsError(ins.err)
            THEN [err |-> ins.err, o |-> v.o, tbl |-> tbl, seq |-> ins.seq]
            ELSE [err |-> NoError,
                  o |-> [v.o EXCEPT !.id = JNum(ins.row.id), !.guid = JNum(guid)],
                  tbl |-> ins.tbl, seq |-> ins.seq]
    IN IF IsError(v.err) THEN [err |-> v.err, o |-> v.o, tbl |-> tbl, seq |-> seq]
       ELSE IF guid = 0
       THEN [err |-> Err("Error", CurMsg.guid), o |-> v.o, tbl |-> tbl, seq |-> seq]
       ELSE IF ~IsNull(existingCode)
       THEN [err |-> Err("Error", CurMsg.exists), o |-> v.o, tbl |-> tbl, seq |-> seq]
       ELSE IF IsError(orm)
       THEN [err |-> orm, o |-> v.o, tbl |-> tbl, seq |-> seq]
       ELSE With(Inserted, insertOne(tbl, seq, data, CurDbMsg.unique, CurDbMsg.guidUnique))

  IN With(Validated, CurValidate(o))

CurUpdate(o, tbl) ==
  LET Validated(v) ==
    LET fields == {f \in {"code", "name", "symbol", "decimal_places", "active"} :
                      ~IsUndefined(v.o[f])}
        orm == CurOrmValidate(v.o, fields)
        Updated(upd) ==
            IF IsError(upd.err) THEN [err |-> upd.err, o |-> v.o, tbl |-> tbl]
            ELSE IF upd.affected = 0
            THEN [err |-> Err("Error", CurMsg.update), o |-> v.o, tbl |-> tbl]
            ELSE [err |-> NoError, o |-> v.o, tbl |-> upd.tbl]
    IN IF IsError(v.err) THEN [err |-> v.err, o |-> v.o, tbl |-> tbl]
       ELSE IF ~Truthy(v.o.id)
       THEN [err |-> Err("Error", CurMsg.idRequired), o |-> v.o, tbl |-> tbl]
       ELSE IF IsError(orm) THEN [err |-> orm, o |-> v.o, tbl |-> tbl]
       ELSE With(Updated, updateOne(tbl, CurColumns(v.o), fields, v.o.id.n, CurDbMsg.unique))

  IN With(Validated, CurValidate(o))

(***************************************************************************)
(* Currency: the domain class                                              *)
(***************************************************************************)
CurNew ==
    [id |-> Undefined, guid |-> Undefined, code |-> Undefined, name |-> Undefined,
     symbol |-> Undefined, decimal_places |-> Undefined, active |-> Undefined]

\* the fluent setters; setCode stores the code in upper case
CurSet(o, field, value) ==
    [o EXCEPT ![field] = IF field = "code" THEN JStr(ToUpperCase(value.s)) ELSE value]

\* an isNew() that takes every object for a new one
CurIsNew_AlwaysNew(o) == TRUE

CurIsNew(o) == IsUndefined(o.id)

CurHydrate(o, data) ==
    [o EXCEPT !.id = JNum(data.id), !.guid = JNum(data.guid),
              !.code = JStr(data.code), !.name = JStr(data.name),
              !.symbol = JStr(data.symbol),
              !.decimal_places = JNum(data.decimal_places),
              !.active = JBool(data.active)]

CurSave(o, tbl, seq) ==
    LET Rethrow(r) == IF IsError(r.err) THEN [r EXCEPT !.err = SaveWrap(r.err)] ELSE r
    IN With(Rethrow, IF CurIsNew(o) THEN CurCreate(o, tbl, seq)
                     ELSE CurUpdate(o, tbl) @@ [seq |-> seq])

\* delete(): only an object with an id reaches trash()
CurDelete(o, tbl) ==
    IF ~IsUndefined(o.id) THEN deleteOne(tbl, o.id.n)
    ELSE [tbl |-> tbl, deleted |-> FALSE]

\* load(identifier, byGuid, byCode): null is the row NullRow
CurLoadRow(tbl, identifier, byGuid, byCode) ==
    IF byGuid THEN findOne(tbl, "guid", identifier)
    ELSE IF byCode THEN findOne(tbl, "code", ToUpperCase(identifier))
    ELSE findOne(tbl, "id", identifier)

CurToJSON(o) ==
    [guid |-> o.guid, code |-> o.code, name |-> o.name, symbol |-> o.symbol,
     decimal_places |-> o.decimal_places, active |-> o.active]

(***************************************************************************)
(* R: the response helpers.  handleSuccess writes {success, data},         *)
(* handleError writes {success, error, timestamp}.                         *)
(***************************************************************************)
NoResponse ==
    [status |-> 0, success |-> FALSE, data |-> [kind |-> "none"],
     error |-> [code |-> "", message |-> <<>>], timestamp |-> FALSE, stack |-> FALSE]

handleSuccess(structure, httpCode) ==
    [NoResponse EXCEPT !.status = httpCode, !.success = TRUE, !.data = structure]
handleCreated(structure) == handleSuccess(structure, CREATED)
handleError(httpCode, error) ==
    [NoResponse EXCEPT !.status = httpCode, !.error = error, !.timestamp = TRUE]

\* the {code, message} object a handler passes to handleError
ErrBody(code, text) == [code |-> code, message |-> <<text>>]

(***************************************************************************)
(* Currency routes                                                         *)
(***************************************************************************)
EmptyBody ==
    [code |-> Undefined, name |-> Undefined, symbol |-> Undefined,
     decimal_places |-> Undefined, active |-> Undefined]

\* outcome of a handler: the response, the table after it, the branch taken
\* and the exception caught (if any)
Outcome(r, tbl, seq, branch, e) ==
    [resp |-> r, tbl |-> tbl, seq |-> seq, branch |-> branch, err |-> e]

\* a catch block that answers every exception as the DELETE route does
CurCatch_AllInternal(e, failedCode) ==
    handleError(INTERNAL_ERROR, [code |-> failedCode, message |-> e.message])

\* the catch block of POST / and PUT /:guid
CurCatch(e, failedCode) ==
    IF MessageIncludes(e.message, FragmentsWithAlreadyExists)
    THEN handleError(CONFLICT, [code |-> "currency_already_exists", message |-> e.message])
    ELSE IF MessageIncludes(e.message, FragmentsWithCode)
    THEN handleError(BAD_REQUEST, [code |-> "invalid_code", message |-> e.message])
    ELSE handleError(BAD_REQUEST, [code |-> failedCode, message |-> e.message])

CurPost(body, tbl, seq) ==
    LET c0 == CurSet(CurSet(CurSet(CurSet(CurNew, "code", body.code), "name", body.name),
                            "symbol", body.symbol),
                     "decimal_places", body.decimal_places)
        c1 == IF ~IsUndefined(body.active)
              THEN CurSet(c0, "active", JBool(Truthy(body.active))) ELSE c0
        Saved(r) ==
            IF IsError(r.err)
            THEN Outcome(CurCatch(r.err, "creation_failed"), r.tbl, r.seq, "thrown", r.err)
            ELSE Outcome(handleCreated(CurToJSON(r.o)), r.tbl, r.seq, "created", NoError)
    IN IF ~Truthy(body.code)
       THEN Outcome(handleError(BAD_REQUEST,
                ErrBody("code_required", "Currency code (ISO 4217) is required")),
                tbl, seq, "required", NoError)
       ELSE IF ~Truthy(body.name)
       THEN Outcome(handleError(BAD_REQUEST,
                ErrBody("name_required", "Currency name is required")),
                tbl, seq, "required", NoError)
       ELSE IF ~Truthy(body.symbol)
       THEN Outcome(handleError(BAD_REQUEST,
                ErrBody("symbol_required", "Currency symbol is required")),
                tbl, seq, "required", NoError)
       ELSE IF IsUndefined(body.decimal_places)
       THEN Outcome(handleError(BAD_REQUEST,
                ErrBody("decimal_places_required", "Decimal places is required")),
                tbl, seq, "required", NoError)
       ELSE With(Saved, CurSave(c1, tbl, seq))

CurPut(param, body, tbl, seq) ==
    LET guid == ParseInt(param)
        row == CurLoadRow(tbl, guid, TRUE, FALSE)
        c0 == CurHydrate(CurNew, row)
        c1 == IF ~IsUndefined(body.code) THEN CurSet(c0, "code", body.code) ELSE c0
        c2 == IF ~IsUndefined(body.name) THEN CurSet(c1, "name", body.name) ELSE c1
        c3 == IF ~IsUndefined(body.symbol) THEN CurSet(c2, "symbol", body.symbol) ELSE c2
        c4 == IF ~IsUndefined(body.decimal_places)
              THEN CurSet(c3, "decimal_places", body.decimal_places) ELSE c3
        c5 == IF ~IsUndefined(body.active)
              THEN CurSet(c4, "active", JBool(Truthy(body.active))) ELSE c4
        Saved(r) ==
            IF IsError(r.err)
            THEN Outcome(CurCatch(r.err, "update_failed"), r.tbl, r.seq, "thrown", r.err)
            ELSE Outcome(handleSuccess(CurToJSON(r.o), SUCCESS), r.tbl, r.seq,
                         "updated", NoError)
    IN IF ~(Len(param) = GuidLength /\ AllDigits(param))
       THEN Outcome(handleError(BAD_REQUEST,
                ErrBody("invalid_guid", "GUID must be a 6-digit number")),
                tbl, seq, "invalid_guid", NoError)
       ELSE IF IsNull(row)
       THEN Outcome(handleError(NOT_FOUND,
                ErrBody("currency_not_found", "Currency not found")),
                tbl, seq, "not_found", NoError)
       ELSE With(Saved, CurSave(c5, tbl, seq))

CurDeleteRoute(param, tbl, seq) ==
    LET guid == ParseInt(param)
        row == CurLoadRow(tbl, guid, TRUE, FALSE)
        c0 == CurHydrate(CurNew, row)
        d == CurDelete(c0, tbl)
    IN IF ~(Len(param) >= 1 /\ AllDigits(param))
       THEN Outcome(handleError(BAD_REQUEST,
                ErrBody("invalid_guid", "GUID must be a positive integer")),
                tbl, seq, "invalid_guid", NoError)
       ELSE IF IsNull(row)
       THEN Outcome(handleError(NOT_FOUND,
                ErrBody("currency_not_found", "Currency not found")),
                tbl, seq, "not_found", NoError)
       ELSE IF d.deleted
       THEN Outcome(handleSuccess(
                [kind |-> "deleted", guid |-> guid, code |-> c0.code, name |-> c0.name],
                SUCCESS), d.tbl, seq, "deleted", NoError)
       ELSE Outcome(handleError(INTERNAL_ERROR,
                ErrBody("data_saved_error", "items not saved")),
                d.tbl, seq, "not_deleted", NoError)

\* GET /:identifier : digits are tried as an id, then as a GUID; three letters
\* as a code; anything else finds nothing
CurGet(identifier, tbl, seq) ==
    LET numericId == ParseInt(identifier)
        byId == CurLoadRow(tbl, numericId, FALSE, FALSE)
        byGuid == CurLoadRow(tbl, numericId, TRUE, FALSE)
        byCode == CurLoadRow(tbl, ToUpperCase(identifier), FALSE, TRUE)
        row == IF Len(identifier) >= 1 /\ AllDigits(identifier)
               THEN (IF ~IsNull(byId) THEN byId ELSE byGuid)
               ELSE IF Len(identifier) = CurrencyCodeLen /\ AllUpper(ToUpperCase(identifier))
               THEN byCode
               ELSE NullRow
    IN IF IsNull(row)
       THEN Outcome(handleError(NOT_FOUND,
                ErrBody("currency_not_found", "Currency with identifier not found")),
                tbl, seq, "not_found", NoError)
       ELSE Outcome(handleSuccess(CurToJSON(CurHydrate(CurNew, row)), SUCCESS),
                    tbl, seq, "found", NoError)

(***************************************************************************)
(* Requests the clients send to the currency routes                        *)
(***************************************************************************)
\* the bodies of POST / and PUT /:guid; a body carries at most one value out
\* of the ordinary
CurBodies ==
    LET U1 == {Undefined}
        XAF == JStr(<<"X","A","F">>)
        CodePlain == {XAF, JStr(<<"U","S","D">>)}
        CodeOdd == {JStr(<<" ","x","a","f">>), JStr(<<"X","A">>), JStr(<<"X","1","F">>),
                    JStr(<<>>)}
        NamePlain == {JStr(<<"A","b">>)}
        NameOdd == {JStr(<<" ","C","d"," ">>), JStr(<<"A">>),
                    JStr([i \in 1..(CurrencyOrmNameMax + 1) |-> "a"])}
        SymbolPlain == {JStr(<<"F">>)}
        SymbolOdd == {JStr([i \in 1..(CurrencySymbolMax + 1) |-> "F"])}
        DecPlain == {JStr(<<"2">>)}
        DecOdd == {JNum(0), JNum(2), JStr(<<"1","1">>), JStr(<<"x">>)}
        Actives == {JBool(TRUE), JBool(FALSE)}
        Over(codes, names, symbols, decs, actives) ==
            [code : codes, name : names, symbol : symbols, decimal_places : decs,
             active : actives]
    IN [post |->
            Over(CodePlain, NamePlain, SymbolPlain, DecPlain, Actives \cup U1)
            \cup Over(CodeOdd \cup U1, NamePlain, SymbolPlain, DecPlain, U1)
            \cup Over({XAF}, NameOdd \cup U1, SymbolPlain, DecPlain, U1)
            \cup Over({XAF}, NamePlain, SymbolOdd \cup U1, DecPlain, U1)
            \cup Over({XAF}, NamePlain, SymbolPlain, DecOdd \cup U1, U1),
        put |->
            Over(CodePlain \cup U1, U1, U1, DecPlain, Actives \cup U1)
            \cup Over(CodeOdd, U1, U1, DecPlain, U1)
            \cup Over(U1, NameOdd, U1, DecPlain, U1)
            \cup Over(U1, U1, SymbolOdd \cup SymbolPlain, DecPlain, U1)
            \cup Over(U1, U1, U1, DecOdd \cup U1, U1)]

\* path parameters: the GUIDs the table can hold, one more, and malformed ones
GuidParams ==
    {DigitsOf(Pow10(GuidLength - 1) + i) : i \in 1..(MaxId + 1)}
    \cup {<<"1","2","3","4","5">>, <<"a","b","c">>}
CurIdentifiers ==
    GuidParams \cup {DigitsOf(i) : i \in 1..MaxId}
    \cup {<<"X","A","F">>, <<"u","s","d">>}

\* the rows a path parameter addresses: PUT and DELETE address by GUID,
\* GET by id, GUID or code
Addressed(tbl, op, param) ==
    {r \in tbl :
        \/ /\ Len(param) >= 1 /\ AllDigits(param)
           /\ \/ r.guid = ParseInt(param)
              \/ op = "GET" /\ r.id = ParseInt(param)
        \/ op = "GET" /\ r.code = ToUpperCase(param)}

NoRequest ==
    [entity |-> "", op |-> "", param |-> <<>>, body |-> EmptyBody,
     branch |-> "", err |-> NoError]

\* the body is remembered for the requests that wrote a row
Request(entity, op, param, body, out) ==
    [entity |-> entity, op |-> op, param |-> param,
     body |-> IF out.branch \in {"created", "updated"} THEN body ELSE EmptyBody,
     branch |-> out.branch, err |-> out.err]

CurrencyPost ==
    \E body \in CurBodies.post :
        \E out \in {CurPost(body, currency, currencySeq)} :
           /\ out.seq <= MaxId
           /\ currency' = out.tbl
           /\ currencySeq' = out.seq
           /\ resp' = out.resp
           /\ last' = Request("currency", "POST", <<>>, body, out)
           /\ UNCHANGED <<country, countrySeq, obj, objLog, deleted, nodeEnv, nRows, page,
                      tenant, tenantSeq, reqs, registry, cycle, app>>

CurrencyPut ==
    \E param \in GuidParams, body \in CurBodies.put :
        \E out \in {CurPut(param, body, currency, currencySeq)} :
           /\ currency' = out.tbl
           /\ currencySeq' = out.seq
           /\ resp' = out.resp
           /\ last' = Request("currency", "PUT", param, body, out)
           /\ UNCHANGED <<country, countrySeq, obj, objLog, deleted, nodeEnv, nRows, page,
                      tenant, tenantSeq, reqs, registry, cycle, app>>

CurrencyDelete ==
    \E param \in GuidParams :
        \E out \in {CurDeleteRoute(param, currency, currencySeq)} :
           /\ currency' = out.tbl
           /\ currencySeq' = out.seq
           /\ resp' = out.resp
           /\ last' = Request("currency", "DELETE", param, EmptyBody, out)
           /\ deleted' = IF out.branch = "deleted"
                         THEN deleted \cup {[id |-> r.id, guid |-> r.guid, code |-> r.code] :
                                              r \in Addressed(currency, "DELETE", param)}
                         ELSE deleted
           /\ UNCHANGED <<country, countrySeq, obj, objLog, nodeEnv, nRows, page,
                      tenant, tenantSeq, reqs, registry, cycle, app>>

CurrencyGet ==
    \E identifier \in CurIdentifiers :
        \E out \in {CurGet(identifier, currency, currencySeq)} :
           /\ currency' = out.tbl
           /\ currencySeq' = out.seq
           /\ resp' = out.resp
           /\ last' = Request("currency", "GET", identifier, EmptyBody, out)
           /\ UNCHANGED <<country, countrySeq, obj, objLog, deleted, nodeEnv, nRows, page,
                      tenant, tenantSeq, reqs, registry, cycle, app>>

NoPage ==
    [route |-> "", query |-> [limit |-> Undefined, offset |-> Undefined],
     offset |-> 0, limit |-> 0, count |-> 0]

\* the clients whose requests overlap
Clients == {1, 2}

\* a client that has no request in flight.  pc is the database call the
\* request's create() awaits next; overlap records whether another request
\* was in flight at some moment of this one
IdleRequest ==
    [pc |-> "idle", o |-> CurNew, guid |-> 0, maxId |-> 0, overlap |-> FALSE]
\* TableInitializer's static fields at process start, and what it has done
Unregistered ==
    [initialized |-> FALSE, models |-> 0, defined |-> 0, synced |-> 0, calls |-> <<>>]
\* no record has been handed to validation.  Amounts are in hundredths;
\* invoiced and paid say whether invoice_generated_at and
\* payment_completed_at are set, duePassed whether payment_due_date is past
NoCycle ==
    [kind |-> "", subtotal |-> 0, tax |-> 0, total |-> 0, status |-> "",
     invoiced |-> FALSE, paid |-> FALSE, duePassed |-> FALSE, verdict |-> ""]
\* a process that has constructed its App and not called start() yet:
\* server is this.server (null, or the state of the http.Server it holds),
\* db is Db.instance, pc the position of start(), down that of the shutdown
\* handler, halt that of stop(), inflight the requests being served,
\* orphaned whether a request ever completed against a cleaned-up registry,
\* boots the number of processes started so far, op the last persistence
\* operation called: its name, whether getModel() had a model for it, and
\* how it ended for its caller
NewApp ==
    [server |-> "null", isShuttingDown |-> FALSE, db |-> "none", pc |-> "new",
     down |-> "", halt |-> "", inflight |-> 0, orphaned |-> FALSE, boots |-> 1,
     op |-> [name |-> "", ready |-> FALSE, outcome |-> ""]]

InitData ==
    /\ reqs = [c \in Clients |-> IdleRequest]
    /\ registry = Unregistered
    /\ currency = {}
    /\ currencySeq = 0
    /\ country = {}
    /\ countrySeq = 0
    /\ obj = CurNew
    /\ objLog = [op |-> "", err |-> NoError, saves |-> 0]
    /\ resp = NoResponse
    /\ last = NoRequest
    /\ deleted = {}
    /\ nRows = 0
    /\ page = NoPage
    /\ app = NewApp

Init ==
    InitData /\ nodeEnv = "production" /\ tenant = {} /\ tenantSeq = 0 /\ cycle = NoCycle

NextCurrency == CurrencyPost \/ CurrencyPut \/ CurrencyDelete \/ CurrencyGet
SpecCurrency == Init /\ [][NextCurrency]_vars

(***************************************************************************)
(* Properties of the currency routes                                       *)
(***************************************************************************)
\* the row a successful POST reported, loaded again by its GUID
CreatedRow == CurLoadRow(currency, resp.data.guid.n, TRUE, FALSE)

\* C2: after a create succeeded, loading the created row by its GUID returns
\* the value supplied for every supplied field, the active flag included
\* (strings are compared after the schema's cleanup: trim and upper case)
C2_CreateThenLoadSame ==
    (last.entity = "currency" /\ last.branch = "created") =>
        /\ ~IsNull(CreatedRow)
        /\ CreatedRow.code = ToUpperCase(StrTrim(last.body.code.s))
        /\ CreatedRow.name = StrTrim(last.body.name.s)
        /\ CreatedRow.symbol = StrTrim(last.body.symbol.s)
        /\ CreatedRow.decimal_places = ParseInt(StrTrim(ValueToString(last.body.decimal_places)))
        /\ (~IsUndefined(last.body.active) => CreatedRow.active = last.body.active.b)

\* C4: once a DELETE has succeeded the loads by id, by GUID and by code find
\* nothing, and no later load by any of the three ever returns the deleted row
C4_DeletedRowNotLoadable ==
    /\ \A d \in deleted :
          /\ IsNull(CurLoadRow(currency, d.id, FALSE, FALSE))
          /\ CurLoadRow(currency, d.guid, TRUE, FALSE).id # d.id
          /\ CurLoadRow(currency, d.code, FALSE, TRUE).id # d.id
    /\ (last.entity = "currency" /\ last.branch = "deleted") =>
          \A d \in deleted :
              (d.guid = resp.data.guid /\ d.code = resp.data.code.s) =>
                  /\ IsNull(CurLoadRow(currency, d.id, FALSE, FALSE))
                  /\ IsNull(CurLoadRow(currency, d.guid, TRUE, FALSE))
                  /\ IsNull(CurLoadRow(currency, d.code, FALSE, TRUE))
C4_Witness ==
    /\ last.entity = "currency" /\ last.op = "GET" /\ last.branch = "not_found"
    /\ \E d \in deleted : AllDigits(last.param) /\ ParseInt(last.param) = d.guid
    /\ currency # {}

\* C6: no two rows of the table carry the same code, and a request rejected
\* for a duplicate code leaves the table as it was
NoDuplicateCode(tbl) == \A r1 \in tbl, r2 \in tbl : r1.code = r2.code => r1 = r2
C6_UniqueNaturalKey ==
    /\ [](NoDuplicateCode(currency) /\ NoDuplicateCode(country))
    /\ [][IsUniqueError(last'.err) => (currency' = currency /\ country' = country)]_vars
C6_Witness ==
    /\ last.entity = "currency" /\ last.op = "PUT" /\ IsUniqueError(last.err)
    /\ Cardinality(currency) = 2

\* C7: a create or update rejected for a uniqueness violation is answered 409
C7_UniqueViolationIs409 ==
    IsUniqueError(last.err) => resp.status = 409

\* C8 as stated: a GET, PUT or DELETE that addresses no existing row is
\* answered 404 and changes nothing
C8_MissingRowIs404 ==
    [][(last'.entity = "currency" /\ last'.op \in {"GET", "PUT", "DELETE"}
        /\ Addressed(currency, last'.op, last'.param) = {})
       => (resp'.status = 404 /\ currency' = currency)]_vars

\* the format check each route applies to its path parameter
WellFormed(op, param) ==
    CASE op = "PUT" -> Len(param) = 6 /\ AllDigits(param)
      [] op = "DELETE" -> Len(param) >= 1 /\ AllDigits(param)
      [] OTHER -> TRUE

\* C8 amended: with a well-formed parameter the answer is 404, with a
\* malformed GUID it is 400; the table is unchanged either way
C8_MissingRowIs404_WellFormed ==
    [][(last'.entity = "currency" /\ last'.op \in {"GET", "PUT", "DELETE"}
        /\ Addressed(currency, last'.op, last'.param) = {})
       => /\ currency' = currency
          /\ resp'.success = FALSE
          /\ resp'.status = IF WellFormed(last'.op, last'.param) THEN 404 ELSE 400]_vars
C8_Witness ==
    /\ last.entity = "currency" /\ last.op = "PUT" /\ last.branch = "not_found"
    /\ resp.status = 404 /\ currency # {}

\* C9: a create or update whose data fails validation (a required field
\* missing, a model validator or a schema validator failing) is answered 400
\* with a {code, message} error and the table is unchanged
ValidationFailed(req) ==
    /\ req.op \in {"POST", "PUT"}
    /\ \/ req.branch = "required"
       \/ req.branch = "thrown" /\ IsValidationError(req.err)
C9_ValidationFailureIs400 ==
    [][ValidationFailed(last')
       => /\ resp'.status = 400
          /\ resp'.success = FALSE
          /\ resp'.error.code # "" /\ resp'.error.message # <<>>
          /\ currency' = currency /\ country' = country]_vars
C9_Witness ==
    /\ last.entity = "currency" /\ last.op = "PUT" /\ last.branch = "thrown"
    /\ IsValidationError(last.err) /\ resp.status = 400 /\ currency # {}

(***************************************************************************)
(* Country: schema validators (CountryDbStructure.validation)              *)
(***************************************************************************)
CountryCodeLen == 2
CountryNameMax == 128
CountryCurrencyLen == 3
CountryLanguageLen == 2
CountryTimezoneMax == 64
CountryPhoneDigitsMax == 5

\* /^([A-Z][a-z]+\/[A-Za-z_]+|UTC[+-]\d{1,2}(:\d{2})?|UTC)$/
MatchesTimezone(s) ==
    LET n == Len(s)
        Area ==
            \E k \in 3..(n - 1) :
                /\ IsUpperCh(s[1])
                /\ \A i \in 2..(k - 1) : IsLowerCh(s[i])
                /\ s[k] = "/"
                /\ \A i \in (k + 1)..n :
                      IsUpperCh(s[i]) \/ IsLowerCh(s[i]) \/ s[i] = "_"
        Offset ==
            /\ n >= 5
            /\ SubSeq(s, 1, 3) = <<"U","T","C">>
            /\ s[4] \in {"+", "-"}
            /\ \E d \in 1..2 :
                  /\ n >= 4 + d
                  /\ \A i \in 5..(4 + d) : IsDigitCh(s[i])
                  /\ \/ n = 4 + d
                     \/ /\ n = 4 + d + 3
                        /\ s[4 + d + 1] = ":"
                        /\ IsDigitCh(s[4 + d + 2])
                        /\ IsDigitCh(s[4 + d + 3])
    IN Area \/ Offset \/ s = <<"U","T","C">>

\* /^\+\d{1,5}$/
MatchesPhonePrefix(s) ==
    /\ Len(s) >= 2
    /\ Len(s) <= 1 + CountryPhoneDigitsMax
    /\ s[1] = "+"
    /\ \A i \in 2..Len(s) : IsDigitCh(s[i])

\* CountryDbStructure.validation: the rule of that name applied to v
CtyValidation(rule, v) ==
    CASE rule = "validateCode" ->
             LET trimmed == ToUpperCase(StrTrim(v.s))
             IN Len(trimmed) = CountryCodeLen /\ AllUpper(trimmed)
      [] rule = "validateName" ->
             LET trimmed == StrTrim(v.s)
             IN Len(trimmed) >= 2 /\ Len(trimmed) <= CountryNameMax
      [] rule = "validateTimezone" -> MatchesTimezone(StrTrim(v.s))
      [] rule = "validateCurrencyCode" ->
             LET trimmed == ToUpperCase(StrTrim(v.s))
             IN Len(trimmed) = CountryCurrencyLen /\ AllUpper(trimmed)
      [] rule = "validateLanguageCode" ->
             LET trimmed == StrTrim(v.s)
             IN Len(trimmed) = CountryLanguageLen /\ AllLower(trimmed)
      [] rule = "isActive" -> v.t = "bool"
      [] rule = "validatePhonePrefix" -> MatchesPhonePrefix(StrTrim(v.s))

\* cleanData mutates the object field by field; a truthy `active` is replaced
\* by the result of comparing it with the string 'true'
CtyCleanData(o) ==
    LET Clean(f, v) ==
            IF ~Truthy(v) THEN v
            ELSE CASE f \in {"code", "default_currency_code"} ->
                          JStr(ToUpperCase(StrTrim(v.s)))
                   [] f = "default_language_code" -> JStr(ToLowerCase(StrTrim(v.s)))
                   [] f \in {"name_en", "name_local", "timezone_default", "phone_prefix"} ->
                          JStr(StrTrim(v.s))
                   [] f = "active" -> JBool(v = JStr(<<"t","r","u","e">>))
                   [] OTHER -> v
    IN [f \in DOMAIN o |-> Clean(f, o[f])]

(***************************************************************************)
(* CountryModel                                                            *)
(***************************************************************************)
CtyValidate(o) ==
    IF ~Truthy(o.code) \/ ~CtyValidation("validateCode", o.code)
    THEN [err |-> Err("Error", CtyMsg.code), o |-> o]
    ELSE IF ~Truthy(o.name_en) \/ ~CtyValidation("validateName", o.name_en)
    THEN [err |-> Err("Error", CtyMsg.nameEn), o |-> o]
    ELSE IF Truthy(o.name_local) /\ ~CtyValidation("validateName", o.name_local)
    THEN [err |-> Err("Error", CtyMsg.nameLocal), o |-> o]
    ELSE IF ~Truthy(o.default_currency_code)
            \/ ~CtyValidation("validateCurrencyCode", o.default_currency_code)
    THEN [err |-> Err("Error", CtyMsg.currency), o |-> o]
    ELSE IF ~Truthy(o.default_language_code)
            \/ ~CtyValidation("validateLanguageCode", o.default_language_code)
    THEN [err |-> Err("Error", CtyMsg.language), o |-> o]
    ELSE IF Truthy(o.timezone_default) /\ ~CtyValidation("validateTimezone", o.timezone_default)
    THEN [err |-> Err("Error", CtyMsg.timezone), o |-> o]
    ELSE IF ~Truthy(o.phone_prefix) \/ ~CtyValidation("validatePhonePrefix", o.phone_prefix)
    THEN [err |-> Err("Error", CtyMsg.phone), o |-> o]
    ELSE IF ~IsUndefined(o.active) /\ ~CtyValidation("isActive", o.active)
    THEN [err |-> Err("Error", CtyMsg.active), o |-> o]
    ELSE [err |-> NoError, o |-> CtyCleanData(o)]

\* the column values the database stores for an object's attributes; an
\* attribute that is not given is stored as NULL
CtyColumns(o) ==
    [id |-> 0,
     guid |-> IF o.guid.t = "num" THEN o.guid.n ELSE 0,
     code |-> o.code.s,
     name_en |-> o.name_en.s,
     name_local |-> IF o.name_local.t = "str" THEN o.name_local ELSE JNull,
     default_currency_code |-> o.default_currency_code.s,
     default_language_code |-> o.default_language_code.s,
     active |-> IF o.active.t = "bool" THEN o.active.b ELSE TRUE,
     timezone_default |-> IF o.timezone_default.t = "str"
                          THEN o.timezone_default.s ELSE <<"U","T","C">>,
     phone_prefix |-> o.phone_prefix.s]

\* the validators the ORM runs on the column values it is given
\* (CountryDbStructure.attributes.*.validate); fields: the columns given
CtyOrmValidate(row, fields) ==
    IF "code" \in fields /\ ~(Len(row.code) = CountryCodeLen /\ AllUpper(row.code))
    THEN Err("SequelizeValidationError", CtyDbMsg.code)
    ELSE IF "name_en" \in fields
            /\ ~(Len(row.name_en) >= 2 /\ Len(row.name_en) <= CountryNameMax)
    THEN Err("SequelizeValidationError", CtyDbMsg.nameEn)
    ELSE IF "name_local" \in fields /\ row.name_local.t = "str"
            /\ ~(Len(row.name_local.s) >= 2 /\ Len(row.name_local.s) <= CountryNameMax)
    THEN Err("SequelizeValidationError", CtyDbMsg.nameLocal)
    ELSE IF "default_currency_code" \in fields
            /\ ~(Len(row.default_currency_code) = CountryCurrencyLen
                 /\ AllUpper(row.default_currency_code))
    THEN Err("SequelizeValidationError", CtyDbMsg.currencyCode)
    ELSE IF "default_language_code" \in fields
            /\ ~(Len(row.default_language_code) = CountryLanguageLen
                 /\ AllLower(row.default_language_code))
    THEN Err("SequelizeValidationError", CtyDbMsg.languageCode)
    ELSE IF "timezone_default" \in fields /\ ~MatchesTimezone(row.timezone_default)
    THEN Err("SequelizeValidationError", CtyDbMsg.timezone)
    ELSE IF "timezone_default" \in fields
            /\ ~(Len(row.timezone_default) >= 1
                 /\ Len(row.timezone_default) <= CountryTimezoneMax)
    THEN Err("SequelizeValidationError", CtyDbMsg.timezoneLen)
    ELSE IF "phone_prefix" \in fields /\ ~MatchesPhonePrefix(row.phone_prefix)
    THEN Err("SequelizeValidationError", CtyDbMsg.phone)
    ELSE NoError

\* create(): the insert carries every column; `active` defaults to true and
\* `timezone_default` to 'UTC'
CtyCreate(o, tbl, seq) ==
  LET Validated(v) ==
    LET guid == guidGenerator(tbl, GuidLength)
        existingCode == findOne(tbl, "code", ToUpperCase(v.o.code.s))
        data == CtyColumns([v.o EXCEPT !.guid = JNum(guid)])
        orm == CtyOrmValidate(data, DOMAIN data \ {"id"})
        Inserted(ins) ==
            IF IsError(ins.err)
            THEN [err |-> ins.err, o |-> v.o, tbl |-> tbl, seq |-> ins.seq]
            ELSE [err |-> NoError,
                  o |-> [v.o EXCEPT !.id = JNum(ins.row.id), !.guid = JNum(guid)],
                  tbl |-> ins.tbl, seq |-> ins.seq]
    IN IF IsError(v.err) THEN [err |-> v.err, o |-> v.o, tbl |-> tbl, seq |-> seq]
       ELSE IF guid = 0
       THEN [err |-> Err("Error", CtyMsg.guid), o |-> v.o, tbl |-> tbl, seq |-> seq]
       ELSE IF ~IsNull(existingCode)
       THEN [err |-> Err("Error", CtyMsg.exists), o |-> v.o, tbl |-> tbl, seq |-> seq]
       ELSE IF IsError(orm)
       THEN [err |-> orm, o |-> v.o, tbl |-> tbl, seq |-> seq]
       ELSE With(Inserted, insertOne(tbl, seq, data, CtyDbMsg.unique, CtyDbMsg.guidUnique))

  IN With(Validated, CtyValidate(o))

\* update(): updateData carries every attribute that is not undefined
CtyUpdate(o, tbl) ==
  LET Validated(v) ==
    LET fields == {f \in DOMAIN v.o \ {"id", "guid"} : ~IsUndefined(v.o[f])}
        data == CtyColumns(v.o)
        orm == CtyOrmValidate(data, fields)
        Updated(upd) ==
            IF IsError(upd.err) THEN [err |-> upd.err, o |-> v.o, tbl |-> tbl]
            ELSE IF upd.affected = 0
            THEN [err |-> Err("Error", CtyMsg.update), o |-> v.o, tbl |-> tbl]
            ELSE [err |-> NoError, o |-> v.o, tbl |-> upd.tbl]
    IN IF IsError(v.err) THEN [err |-> v.err, o |-> v.o, tbl |-> tbl]
       ELSE IF ~Truthy(v.o.id)
       THEN [err |-> Err("Error", CtyMsg.idRequired), o |-> v.o, tbl |-> tbl]
       ELSE IF IsError(orm) THEN [err |-> orm, o |-> v.o, tbl |-> tbl]
       ELSE With(Updated, updateOne(tbl, data, fields, v.o.id.n, CtyDbMsg.unique))

  IN With(Validated, CtyValidate(o))

(***************************************************************************)
(* Country: the domain class                                               *)
(***************************************************************************)
CtyNew ==
    [id |-> Undefined, guid |-> Undefined, code |-> Undefined, name_en |-> Undefined,
     name_local |-> Undefined, default_currency_code |-> Undefined,
     default_language_code |-> Undefined, active |-> Undefined,
     timezone_default |-> Undefined, phone_prefix |-> Undefined]

\* the fluent setters; the ISO codes are stored in upper case, the language
\* code in lower case
CtySet(o, field, value) ==
    [o EXCEPT ![field] =
        CASE field \in {"code", "default_currency_code"} -> JStr(ToUpperCase(value.s))
          [] field = "default_language_code" -> JStr(ToLowerCase(value.s))
          [] OTHER -> value]

CtyIsNew(o) == IsUndefined(o.id)

CtyHydrate(o, data) ==
    [o EXCEPT !.id = JNum(data.id), !.guid = JNum(data.guid),
              !.code = JStr(data.code), !.name_en = JStr(data.name_en),
              !.name_local = data.name_local,
              !.default_currency_code = JStr(data.default_currency_code),
              !.default_language_code = JStr(data.default_language_code),
              !.active = JBool(data.active),
              !.timezone_default = JStr(data.timezone_default),
              !.phone_prefix = JStr(data.phone_prefix)]

CtySave(o, tbl, seq) ==
    LET Rethrow(r) == IF IsError(r.err) THEN [r EXCEPT !.err = SaveWrap(r.err)] ELSE r
    IN With(Rethrow, IF CtyIsNew(o) THEN CtyCreate(o, tbl, seq)
                     ELSE CtyUpdate(o, tbl) @@ [seq |-> seq])

CtyDelete(o, tbl) ==
    IF ~IsUndefined(o.id) THEN deleteOne(tbl, o.id.n)
    ELSE [tbl |-> tbl, deleted |-> FALSE]

CtyLoadRow(tbl, identifier, byGuid, byCode) ==
    IF byGuid THEN findOne(tbl, "guid", identifier)
    ELSE IF byCode THEN findOne(tbl, "code", ToUpperCase(identifier))
    ELSE findOne(tbl, "id", identifier)

CtyToJSON(o) ==
    [guid |-> o.guid, code |-> o.code, name_en |-> o.name_en,
     name_local |-> o.name_local,
     default_currency_code |-> o.default_currency_code,
     default_language_code |-> o.default_language_code,
     is_active |-> o.active, timezone_default |-> o.timezone_default,
     phone_prefix |-> o.phone_prefix]

(***************************************************************************)
(* Country routes.  The bodies carry no `is_active`.                       *)
(***************************************************************************)
CtyCatch(e, failedCode) ==
    IF MessageIncludes(e.message, FragmentsWithAlreadyExists)
    THEN handleError(CONFLICT, [code |-> "country_already_exists", message |-> e.message])
    ELSE IF MessageIncludes(e.message, FragmentsWithCode)
    THEN handleError(BAD_REQUEST, [code |-> "invalid_code", message |-> e.message])
    ELSE handleError(BAD_REQUEST, [code |-> failedCode, message |-> e.message])

CtyPost(body, tbl, seq) ==
    LET Given(o, field) == CtySet(o, field, body[field])
        c0 == Given(Given(Given(Given(Given(CtyNew, "code"), "name_en"),
                                "default_currency_code"),
                          "default_language_code"),
                    "phone_prefix")
        c1 == IF Truthy(body.name_local) THEN Given(c0, "name_local") ELSE c0
        c2 == IF Truthy(body.timezone_default) THEN Given(c1, "timezone_default") ELSE c1
        Saved(r) ==
            IF IsError(r.err)
            THEN Outcome(CtyCatch(r.err, "creation_failed"), r.tbl, r.seq, "thrown", r.err)
            ELSE Outcome(handleCreated(CtyToJSON(r.o)), r.tbl, r.seq, "created", NoError)
        Required(code, text) ==
            Outcome(handleError(BAD_REQUEST, ErrBody(code, text)),
                    tbl, seq, "required", NoError)
    IN IF ~Truthy(body.code)
       THEN Required("code_required", "Country code (ISO) is required")
       ELSE IF ~Truthy(body.name_en)
       THEN Required("name_en_required", "Country name (English) is required")
       ELSE IF ~Truthy(body.default_currency_code)
       THEN Required("currency_code_required", "Default currency code is required")
       ELSE IF ~Truthy(body.default_language_code)
       THEN Required("language_code_required", "Default language code is required")
       ELSE IF ~Truthy(body.phone_prefix)
       THEN Required("phone_prefix_required", "Phone prefix is required")
       ELSE With(Saved, CtySave(c2, tbl, seq))

CtyPut(param, body, tbl, seq) ==
    LET guid == ParseInt(param)
        row == CtyLoadRow(tbl, guid, TRUE, FALSE)
        c0 == CtyHydrate(CtyNew, row)
        Given(o, field) ==
            IF ~IsUndefined(body[field]) THEN CtySet(o, field, body[field]) ELSE o
        c7 == Given(Given(Given(Given(Given(Given(Given(c0, "code"), "name_en"),
                                            "name_local"),
                                      "default_currency_code"),
                                "default_language_code"),
                          "timezone_default"),
                    "phone_prefix")
        Saved(r) ==
            IF IsError(r.err)
            THEN Outcome(CtyCatch(r.err, "update_failed"), r.tbl, r.seq, "thrown", r.err)
            ELSE Outcome(handleSuccess(CtyToJSON(r.o), SUCCESS), r.tbl, r.seq,
                         "updated", NoError)
    IN IF ~(Len(param) = GuidLength /\ AllDigits(param))
       THEN Outcome(handleError(BAD_REQUEST,
                ErrBody("invalid_guid", "GUID must be a 6-digit number")),
                tbl, seq, "invalid_guid", NoError)
       ELSE IF IsNull(row)
       THEN Outcome(handleError(NOT_FOUND,
                ErrBody("country_not_found", "Country not found")),
                tbl, seq, "not_found", NoError)
       ELSE With(Saved, CtySave(c7, tbl, seq))

CtyDeleteRoute(param, tbl, seq) ==
    LET guid == ParseInt(param)
        row == CtyLoadRow(tbl, guid, TRUE, FALSE)
        c0 == CtyHydrate(CtyNew, row)
        d == CtyDelete(c0, tbl)
    IN IF ~(Len(param) >= 1 /\ AllDigits(param))
       THEN Outcome(handleError(BAD_REQUEST,
                ErrBody("invalid_guid", "GUID must be a positive integer")),
                tbl, seq, "invalid_guid", NoError)
       ELSE IF IsNull(row)
       THEN Outcome(handleError(NOT_FOUND,
                ErrBody("country_not_found", "Country not found")),
                tbl, seq, "not_found", NoError)
       ELSE IF d.deleted
       THEN Outcome(handleSuccess(
                [kind |-> "deleted", guid |-> guid, code |-> c0.code, name |-> c0.name_en],
                SUCCESS), d.tbl, seq, "deleted", NoError)
       ELSE Outcome(handleError(INTERNAL_ERROR,
                ErrBody("data_saved_error", "items not saved")),
                d.tbl, seq, "not_deleted", NoError)

\* GET /:identifier : digits are tried as an id, then as a GUID; two letters
\* as a code; anything else finds nothing
CtyGet(identifier, tbl, seq) ==
    LET numericId == ParseInt(identifier)
        byId == CtyLoadRow(tbl, numericId, FALSE, FALSE)
        byGuid == CtyLoadRow(tbl, numericId, TRUE, FALSE)
        byCode == CtyLoadRow(tbl, ToUpperCase(identifier), FALSE, TRUE)
        row == IF Len(identifier) >= 1 /\ AllDigits(identifier)
               THEN (IF ~IsNull(byId) THEN byId ELSE byGuid)
               ELSE IF Len(identifier) = CountryCodeLen /\ AllUpper(ToUpperCase(identifier))
               THEN byCode
               ELSE NullRow
    IN IF IsNull(row)
       THEN Outcome(handleError(NOT_FOUND,
                ErrBody("country_not_found", "Country with identifier not found")),
                tbl, seq, "not_found", NoError)
       ELSE Outcome(handleSuccess(CtyToJSON(CtyHydrate(CtyNew, row)), SUCCESS),
                    tbl, seq, "found", NoError)

(***************************************************************************)
(* Requests the clients send to the country routes                         *)
(***************************************************************************)
CtyBodyFields ==
    {"code", "name_en", "name_local", "default_currency_code",
     "default_language_code", "timezone_default", "phone_prefix"}

CtyEmptyBody == [f \in CtyBodyFields |-> Undefined]
\* a POST carries at most one value out of the ordinary
CtyPostBodies ==
    LET Plain ==
            [code |-> JStr(<<"C","M">>), name_en |-> JStr(<<"A","b">>),
             name_local |-> Undefined,
             default_currency_code |-> JStr(<<"X","A","F">>),
             default_language_code |-> JStr(<<"f","r">>),
             timezone_default |-> Undefined,
             phone_prefix |-> JStr(<<"+","2","3","7">>)]
        Odd ==
            [code |-> {JStr(<<"F","R">>), JStr(<<" ","c","m">>), JStr(<<"C">>),
                       JStr(<<>>), Undefined},
             name_en |-> {JStr(<<" ","C","d"," ">>), JStr(<<"A">>), Undefined},
             name_local |-> {JStr(<<"E","f">>), JStr(<<"E">>)},
             default_currency_code |->
                {JStr(<<"x","a","f">>), JStr(<<"X","A">>), Undefined},
             default_language_code |-> {JStr(<<"F","R">>), JStr(<<"f">>), Undefined},
             timezone_default |->
                {JStr(<<"U","T","C","+","1">>), JStr(<<"M","a","r","s">>),
                 JStr(<<"A","f","r","i","c","a","/">>
                      \o [i \in 1..(CountryTimezoneMax - 6) |-> "a"])},
             phone_prefix |-> {JStr(<<"2","3","7">>),
                               JStr(<<"+","1","2","3","4","5","6">>), Undefined}]
    IN {Plain} \cup UNION {{[Plain EXCEPT ![f] = v] : v \in Odd[f]} : f \in CtyBodyFields}

\* a PUT supplies at most one field
CtyPutBodies ==
    LET Values ==
            [code |-> {JStr(<<"F","R">>), JStr(<<"C">>)},
             name_en |-> {JStr(<<"C","d">>), JStr(<<"A">>)},
             name_local |-> {JStr(<<"E">>)},
             default_currency_code |-> {JStr(<<"X","A">>)},
             default_language_code |-> {JStr(<<"f">>)},
             timezone_default |-> {JStr(<<"M","a","r","s">>)},
             phone_prefix |-> {JStr(<<"1">>)}]
    IN {CtyEmptyBody}
       \cup UNION {{[CtyEmptyBody EXCEPT ![f] = v] : v \in Values[f]} : f \in CtyBodyFields}

CtyIdentifiers ==
    GuidParams \cup {DigitsOf(i) : i \in 1..MaxId} \cup {<<"C","M">>, <<"f","r">>}

CountryPost ==
    \E body \in CtyPostBodies :
        \E out \in {CtyPost(body, country, countrySeq)} :
           /\ out.seq <= MaxId
           /\ country' = out.tbl
           /\ countrySeq' = out.seq
           /\ resp' = out.resp
           /\ last' = Request("country", "POST", <<>>, body, out)
           /\ UNCHANGED <<currency, currencySeq, obj, objLog, deleted, nodeEnv, nRows, page,
                      tenant, tenantSeq, reqs, registry, cycle, app>>

CountryPut ==
    \E param \in GuidParams, body \in CtyPutBodies :
        \E out \in {CtyPut(param, body, country, countrySeq)} :
           /\ country' = out.tbl
           /\ countrySeq' = out.seq
           /\ resp' = out.resp
           /\ last' = Request("country", "PUT", param, body, out)
           /\ UNCHANGED <<currency, currencySeq, obj, objLog, deleted, nodeEnv, nRows, page,
                      tenant, tenantSeq, reqs, registry, cycle, app>>

CountryDelete ==
    \E param \in GuidParams :
        \E out \in {CtyDeleteRoute(param, country, countrySeq)} :
           /\ country' = out.tbl
           /\ countrySeq' = out.seq
           /\ resp' = out.resp
           /\ last' = Request("country", "DELETE", param, CtyEmptyBody, out)
           /\ UNCHANGED <<currency, currencySeq, obj, objLog, deleted, nodeEnv, nRows, page,
                      tenant, tenantSeq, reqs, registry, cycle, app>>

CountryGet ==
    \E identifier \in CtyIdentifiers :
        \E out \in {CtyGet(identifier, country, countrySeq)} :
           /\ country' = out.tbl
           /\ countrySeq' = out.seq
           /\ resp' = out.resp
           /\ last' = Request("country", "GET", identifier, CtyEmptyBody, out)
           /\ UNCHANGED <<currency, currencySeq, obj, objLog, deleted, nodeEnv, nRows, page,
                      tenant, tenantSeq, reqs, registry, cycle, app>>

NextCountry == CountryPost \/ CountryPut \/ CountryDelete \/ CountryGet
SpecCountry == Init /\ [][NextCountry]_vars

(***************************************************************************)
(* Properties of the country routes                                        *)
(***************************************************************************)

\* C3: a PUT /:guid that succeeded leaves every column the body did not
\* supply (the active flag included, which no body of the model supplies)
\* as it was in the row the GUID addresses.
C3_PartialUpdateKeepsRest ==
    [][(last'.entity = "country" /\ last'.op = "PUT" /\ last'.branch = "updated") =>
          \A r \in Addressed(country, "PUT", last'.param) :
              \E r2 \in country' :
                  /\ r2.id = r.id
                  /\ r2.active = r.active
                  /\ \A f \in CtyBodyFields :
                        IsUndefined(last'.body[f]) => r2[f] = r[f]]_vars

(***************************************************************************)
(* A Currency object in the hands of a caller: new Currency(), the fluent  *)
(* setters, save(), delete() and Currency._load()                          *)
(***************************************************************************)
ObjNew ==
    /\ obj' = CurNew
    /\ objLog' = [op |-> "new", err |-> NoError, saves |-> 0]
    /\ UNCHANGED <<currency, currencySeq, country, countrySeq, resp, last, deleted,
                   nodeEnv, nRows, page,
                      tenant, tenantSeq, reqs, registry, cycle, app>>

ObjSet ==
    /\ \E field \in DOMAIN CurNew \ {"id", "guid"} :
          \E value \in
                CASE field = "code" -> {JStr(<<"X","A","F">>), JStr(<<"u","s","d">>)}
                  [] field = "name" -> {JStr(<<"A","b">>)}
                  [] field = "symbol" -> {JStr(<<"F">>)}
                  [] field = "decimal_places" -> {JStr(<<"2">>), JNum(2)}
                  [] field = "active" -> {JBool(TRUE)} :
             obj' = CurSet(obj, field, value)
    /\ objLog' = [op |-> "set", err |-> NoError, saves |-> objLog.saves]
    /\ UNCHANGED <<currency, currencySeq, country, countrySeq, resp, last, deleted,
                   nodeEnv, nRows, page,
                      tenant, tenantSeq, reqs, registry, cycle, app>>

ObjSave ==
    \E r \in {CurSave(obj, currency, currencySeq)} :
       /\ r.seq <= MaxId
       /\ obj' = r.o
       /\ currency' = r.tbl
       /\ currencySeq' = r.seq
       /\ objLog' = [op |-> "save", err |-> r.err,
                      saves |-> IF IsError(r.err) THEN objLog.saves
                                ELSE IF objLog.saves < 2 THEN objLog.saves + 1 ELSE 2]
       /\ UNCHANGED <<country, countrySeq, resp, last, deleted, nodeEnv, nRows, page,
                      tenant, tenantSeq, reqs, registry, cycle, app>>

ObjDelete ==
    \E d \in {CurDelete(obj, currency)} :
       /\ currency' = d.tbl
       /\ objLog' = [op |-> IF d.deleted THEN "deleted" ELSE "not_deleted",
                      err |-> NoError, saves |-> objLog.saves]
       /\ UNCHANGED <<obj, currencySeq, country, countrySeq, resp, last, deleted,
                      nodeEnv, nRows, page,
                      tenant, tenantSeq, reqs, registry, cycle, app>>

\* Currency._load(guid, true): a new object hydrated with the row, if any
ObjLoad ==
    \E i \in 1..MaxId :
        \E row \in {CurLoadRow(currency, Pow10(GuidLength - 1) + i, TRUE, FALSE)} :
           /\ ~IsNull(row)
           /\ obj' = CurHydrate(CurNew, row)
           /\ objLog' = [op |-> "load", err |-> NoError, saves |-> 0]
           /\ UNCHANGED <<currency, currencySeq, country, countrySeq, resp, last,
                          deleted, nodeEnv, nRows, page,
                      tenant, tenantSeq, reqs, registry, cycle, app>>

NextCurrencyObj == ObjNew \/ ObjSet \/ ObjSave \/ ObjDelete \/ ObjLoad
SpecCurrencyObj == Init /\ [][NextCurrencyObj]_vars

Ids(tbl) == {r.id : r \in tbl}

\* C1: a save() that succeeds on an object without primary key inserts
\* exactly one row, under an id no row had, and gives the object that row's
\* id and GUID; a save() on an object that has a primary key inserts no row,
\* leaves every row but the object's own as it was, keeps the object's id
\* and, when it succeeds, leaves the object's row in the table; a save()
\* that fails on an object without primary key inserts nothing.
C1_SaveInsertsOnceThenUpdates ==
    [][objLog'.op = "save" =>
         IF IsUndefined(obj.id)
         THEN IF IsError(objLog'.err)
              THEN currency' = currency /\ IsUndefined(obj'.id)
              ELSE \E r \in currency' :
                      /\ r.id \notin Ids(currency)
                      /\ currency' = currency \cup {r}
                      /\ obj'.id = JNum(r.id)
                      /\ obj'.guid = JNum(r.guid)
         ELSE /\ Ids(currency') = Ids(currency)
              /\ \A r \in currency : r.id # obj.id.n => r \in currency'
              /\ obj'.id = obj.id
              /\ ~IsError(objLog'.err) => obj.id.n \in Ids(currency')]_vars

\* an object saved twice with success, its second save having changed its row
C1_Witness ==
    /\ objLog.op = "save"
    /\ ~IsError(objLog.err)
    /\ objLog.saves = 2
    /\ Cardinality(currency) = 1
    /\ \E r \in currency : r.id = obj.id.n /\ ~r.active

(***************************************************************************)
(* Pagination: ExtractQueryParams.extractPaginationFromQuery, and the      *)
(* list and export routes over a table of nRows active rows                *)
(***************************************************************************)
MaxRows == 1002
LimitMax == 1000

\* parseInt(s, 10): leading blanks, an optional sign, the longest prefix of
\* digits; NaN when there is no digit
RECURSIVE DigitPrefix(_)
DigitPrefix(s) ==
    IF s # <<>> /\ IsDigitCh(Head(s)) THEN <<Head(s)>> \o DigitPrefix(Tail(s)) ELSE <<>>
JsParseInt(s) ==
    LET t == TrimStart(s)
        signed == t # <<>> /\ Head(t) \in {"+", "-"}
        digits == DigitPrefix(IF signed THEN Tail(t) ELSE t)
    IN IF digits = <<>> THEN [nan |-> TRUE, n |-> 0]
       ELSE [nan |-> FALSE,
             n |-> IF signed /\ Head(t) = "-" THEN 0 - ParseInt(digits)
                   ELSE ParseInt(digits)]

extractPaginationFromQuery(query) ==
    LET offset == JsParseInt(query.offset.s)
        limit == JsParseInt(query.limit.s)
    IN [offset |-> IF ~IsUndefined(query.offset) /\ ~offset.nan /\ offset.n >= 0
                   THEN JNum(offset.n) ELSE Undefined,
        limit |-> IF ~IsUndefined(query.limit) /\ ~limit.nan /\ limit.n > 0
                     /\ limit.n <= LimitMax
                  THEN JNum(limit.n) ELSE Undefined]

\* the number of rows findAll returns out of n rows that match the condition
findAll(n, paginationOptions) ==
    LET skipped == IF paginationOptions.offset.t = "num" /\ paginationOptions.offset.n >= 0
                   THEN paginationOptions.offset.n ELSE 0
        rest == IF n > skipped THEN n - skipped ELSE 0
    IN IF paginationOptions.limit.t = "num" /\ paginationOptions.limit.n > 0
          /\ paginationOptions.limit.n < rest
       THEN paginationOptions.limit.n
       ELSE rest

\* the `pagination` object of the answer
Paginated(route, query, paginationOptions, count) ==
    [route |-> route, query |-> query,
     offset |-> IF Truthy(paginationOptions.offset) THEN paginationOptions.offset.n ELSE 0,
     limit |-> IF Truthy(paginationOptions.limit) THEN paginationOptions.limit.n ELSE count,
     count |-> count]

\* the query strings of the list requests
PageQueries ==
  [limit : 
    {Undefined, JStr(<<"1">>), JStr(<<"1","0","0","0">>), JStr(<<"1","0","0","1">>),
     JStr(<<"5","0","0","0">>), JStr(<<"0">>), JStr(<<"-","5">>), JStr(<<"a","b","c">>),
     JStr(<<" ","7","x">>)},
   offset : {Undefined, JStr(<<"1">>)}]

\* a POST / that creates one more active row; its answer is not a list
CurrencyRowCreated ==
    /\ nRows < MaxRows
    /\ nRows' = nRows + 1
    /\ page' = NoPage
    /\ UNCHANGED <<currency, currencySeq, country, countrySeq, obj, objLog, resp, last,
                   deleted, nodeEnv,
                      tenant, tenantSeq, reqs, registry, cycle, app>>

\* GET / : Currency.exportable(paginationOptions) over the active rows
CurrencyExport ==
    \E query \in PageQueries :
        \E p \in {extractPaginationFromQuery(query)} :
           /\ page' = Paginated("export", query, p, findAll(nRows, p))
           /\ UNCHANGED <<currency, currencySeq, country, countrySeq, obj, objLog, resp,
                          last, deleted, nodeEnv, nRows,
                      tenant, tenantSeq, reqs, registry, cycle, app>>

\* GET /list?active=true : Currency._list(conditions, paginationOptions)
CurrencyList ==
    \E query \in PageQueries :
        \E p \in {extractPaginationFromQuery(query)} :
           /\ page' = Paginated("list", query, p, findAll(nRows, p))
           /\ UNCHANGED <<currency, currencySeq, country, countrySeq, obj, objLog, resp,
                          last, deleted, nodeEnv, nRows,
                      tenant, tenantSeq, reqs, registry, cycle, app>>

NextList == CurrencyRowCreated \/ CurrencyExport \/ CurrencyList
SpecList == Init /\ [][NextList]_vars

\* C5: whatever limit the client sends, a list or export answer holds at
\* most 1000 items.
C5_AtMostLimitMaxItems == page.count <= LimitMax

(***************************************************************************)
(* App: the 404 handler and the global error handler of setupRoutes        *)
(***************************************************************************)
MsgInternal == "Erreur interne du serveur"

\* the errors that reach the global handler: the body parsers' (they carry a
\* status), a rejected handler's (a plain Error), a driver's (it carries a code)
AppErrors ==
    [status : {Undefined, JNum(400), JNum(413), JNum(503)},
     code : {Undefined, JText(""), JText("ECONNREFUSED")},
     message : {"Unexpected token } in JSON at position 1", "request entity too large",
                "connect ECONNREFUSED"},
     stack : BOOLEAN]

\* a handler that leaks the stack whatever the environment
globalErrorHandler_AlwaysDev(error, env) ==
    [status |-> IF Truthy(error.status) THEN error.status.n ELSE INTERNAL_ERROR,
     success |-> FALSE, data |-> NoResponse.data,
     error |-> [code |-> IF Truthy(error.code) THEN error.code.x
                         ELSE "internal_server_error",
                message |-> <<error.message>>],
     timestamp |-> FALSE, stack |-> error.stack]

globalErrorHandler(error, env) ==
    LET isDev == env # "production"
    IN [status |-> IF Truthy(error.status) THEN error.status.n ELSE INTERNAL_ERROR,
        success |-> FALSE, data |-> NoResponse.data,
        error |-> [code |-> IF Truthy(error.code) THEN error.code.x
                            ELSE "internal_server_error",
                   message |-> <<IF isDev THEN error.message ELSE MsgInternal>>],
        timestamp |-> FALSE, stack |-> isDev /\ error.stack]

routeNotFound(method, url) ==
    [status |-> NOT_FOUND, success |-> FALSE, data |-> NoResponse.data,
     error |-> [code |-> "route_not_found",
                message |-> <<"Route ", method, " ", url, " introuvable">>],
     timestamp |-> FALSE, stack |-> FALSE]

AppRequest(op, error) ==
    [entity |-> "app", op |-> op, param |-> <<>>, body |-> EmptyBody, branch |-> op,
     err |-> error]

AppUnhandledError ==
    \E error \in AppErrors :
       /\ resp' = globalErrorHandler(error, nodeEnv)
       /\ last' = AppRequest("error", error)
       /\ UNCHANGED <<currency, currencySeq, country, countrySeq, obj, objLog, deleted,
                      nodeEnv, nRows, page,
                      tenant, tenantSeq, reqs, registry, cycle, app>>

AppRouteNotFound ==
    \E method \in {"GET", "POST"}, url \in {"/nowhere", "/master/unknown"} :
       /\ resp' = routeNotFound(method, url)
       /\ last' = AppRequest("route_not_found", NoError)
       /\ UNCHANGED <<currency, currencySeq, country, countrySeq, obj, objLog, deleted,
                      nodeEnv, nRows, page,
                      tenant, tenantSeq, reqs, registry, cycle, app>>

\* NODE_ENV is whatever the deployment sets, or nothing
InitApp ==
    /\ InitData /\ tenant = {} /\ tenantSeq = 0 /\ cycle = NoCycle
    /\ nodeEnv \in {"production", "development", ""}
NextApp == AppUnhandledError \/ AppRouteNotFound
SpecApp == InitApp /\ [][NextApp]_vars

\* C10 as stated: an unhandled exception is answered 500 with the generic
\* body, and a stack is in the answer only outside production.
C10_UnhandledIs500Generic ==
    last.op = "error" =>
        /\ resp.status = INTERNAL_ERROR
        /\ resp.error.message = <<MsgInternal>>
        /\ resp.stack => nodeEnv # "production"

\* C10, amended: an unhandled exception is answered with the status the
\* error carries, 500 when it carries none, and success false; in production
\* the message is the generic one and no stack is in the answer; outside
\* production the message is the error's and the stack is in the answer when
\* the error has one.
C10_UnhandledAnswer ==
    last.op = "error" =>
        /\ resp.status = (IF Truthy(last.err.status) THEN last.err.status.n
                          ELSE INTERNAL_ERROR)
        /\ ~resp.success
        /\ nodeEnv = "production" =>
              resp.error.message = <<MsgInternal>> /\ ~resp.stack
        /\ nodeEnv # "production" =>
              resp.error.message = <<last.err.message>> /\ resp.stack = last.err.stack

\* an error without status answered in production
C10_Witness ==
    /\ last.op = "error"
    /\ nodeEnv = "production"
    /\ ~Truthy(last.err.status)
    /\ last.err.stack
    /\ resp.status = INTERNAL_ERROR
    /\ ~resp.stack

(***************************************************************************)
(* Properties of the response envelope                                     *)
(***************************************************************************)

\* C11: every response written, success or error, carries a boolean success
\* field and a timestamp field.
C11_EnvelopeHasTimestamp ==
    resp.status # 0 => (resp.success \in BOOLEAN /\ resp.timestamp)

(***************************************************************************)
(* TenantModel: create() and trash() over table xf_tenant, whose id column *)
(* is an INTEGER; validate() is empty                                      *)
(***************************************************************************)
MaxInserted == 900001

\* the ids the table hands out in the runs explored: the first ones, and the
\* ones around the 900000th
TenantIdsTried == (1..(MaxId + 2)) \cup ((MaxInserted - 3)..MaxInserted)

TenantModelCreate(o, tbl, seq) ==
    LET guid == guidGenerator(tbl, GuidLength)
        existingCode == findOne(tbl, "subdomain", o.subdomain.s)
        id == seq + 1
        Thrown(e, burnt) == [err |-> e, tbl |-> tbl, seq |-> burnt]
    IN IF guid = 0
       THEN Thrown(Err("Error", "Failed to generate GUID for tenant entry"), seq)
       ELSE IF ~IsNull(existingCode)
       THEN Thrown(Err("Error", "Tenant subdomain already exists"), seq)
       ELSE IF \E f \in {"company", "current_site_count", "profile"} : IsUndefined(o[f])
       THEN Thrown(Err("SequelizeValidationError", "notNull Violation"), seq)
       ELSE IF \E r \in tbl : r.guid = guid
       THEN Thrown(Err("SequelizeUniqueConstraintError", "GUID must be unique"), id)
       ELSE IF \E r \in tbl : r.subdomain = o.subdomain.s
       THEN Thrown(Err("SequelizeUniqueConstraintError", "Subdomain must be unique"), id)
       ELSE [err |-> NoError,
             tbl |-> tbl \cup {[id |-> id, guid |-> guid, subdomain |-> o.subdomain.s]},
             seq |-> id]

\* the tenants the callers create
TenantObjects ==
    [subdomain : {JStr(<<"a",".","i","o">>), JStr(<<"b",".","i","o">>),
                  JStr(<<"c",".","i","o">>)},
     company : {JStr(<<"A">>), Undefined},
     current_site_count : {JNum(0)},
     profile : {JNum(1)}]

TenantCreate ==
    \E o \in TenantObjects :
        \E r \in {TenantModelCreate(o, tenant, tenantSeq)} :
           /\ tenantSeq + 1 \in TenantIdsTried
           /\ tenant' = r.tbl
           /\ tenantSeq' = r.seq
           /\ last' = [entity |-> "tenant", op |-> "create", param |-> <<>>,
                       body |-> EmptyBody,
                       branch |-> IF IsError(r.err) THEN "thrown" ELSE "created",
                       err |-> r.err]
           /\ UNCHANGED <<currency, currencySeq, country, countrySeq, obj, objLog, resp,
                          deleted, nodeEnv, nRows, page, reqs, registry, cycle, app>>

TenantTrash ==
    \E row \in tenant :
        \E d \in {deleteOne(tenant, row.id)} :
           /\ tenant' = d.tbl
           /\ last' = [entity |-> "tenant", op |-> "trash", param |-> <<>>,
                       body |-> EmptyBody,
                       branch |-> IF d.deleted THEN "deleted" ELSE "not_deleted",
                       err |-> NoError]
           /\ UNCHANGED <<currency, currencySeq, country, countrySeq, obj, objLog, resp,
                          deleted, nodeEnv, nRows, page, tenantSeq, reqs, registry, cycle, app>>

\* a table that is new, or one whose sequence has handed out many ids and in
\* which the row inserted last is the only one left
InitTenant ==
    /\ InitData /\ nodeEnv = "production" /\ cycle = NoCycle
    /\ tenantSeq \in {0, MaxInserted - 4}
    /\ tenant = IF tenantSeq = 0 THEN {}
                ELSE {[id |-> tenantSeq, guid |-> Pow10(GuidLength - 1) + tenantSeq,
                       subdomain |-> <<"z",".","i","o">>]}

NextTenant == TenantCreate \/ TenantTrash
SpecTenant == InitTenant /\ [][NextTenant]_vars

\* C12: every GUID a create assigned is a 6-digit number, however many rows
\* were ever inserted in the table.
C12_GuidHasSixDigits ==
    \A r \in tenant : r.guid >= 100000 /\ r.guid <= 999999

(***************************************************************************)
(* POST /currency from several clients at once.  CurrencyModel.create()    *)
(* awaits three database calls (max(id), findOne by code, the INSERT);     *)
(* the requests of other clients run between them.                         *)
(***************************************************************************)
\* the bodies the concurrent clients post: the plain name, symbol and
\* decimal places; two codes, a malformed one, none
ConcBodies ==
    {b \in CurBodies.post :
        /\ b.name = JStr(<<"A","b">>) /\ b.symbol = JStr(<<"F">>)
        /\ b.decimal_places = JStr(<<"2">>) /\ IsUndefined(b.active)
        /\ b.code \in {JStr(<<"X","A","F">>), JStr(<<"U","S","D">>), JStr(<<"X","A">>),
                       Undefined}}

\* the request of client c ends: its response is written (the idle client
\* keeps the overlap mark of the request it made last)
PostEnds(c, r, e, branch) ==
    /\ reqs' = [reqs EXCEPT ![c] = [IdleRequest EXCEPT !.overlap = reqs[c].overlap]]
    /\ resp' = r
    /\ last' = [entity |-> "currency", op |-> "POST", param |-> <<>>,
                body |-> EmptyBody, branch |-> branch, err |-> e]

\* what save() and the route's catch block make of an exception of create()
PostThrows(c, e) ==
    PostEnds(c, CurCatch(SaveWrap(e), "creation_failed"), SaveWrap(e), "thrown")

\* the handler up to the first database call: the required-field checks, the
\* setters, validate()
PostStart ==
    \E c \in Clients, body \in ConcBodies :
        LET c0 == CurSet(CurSet(CurSet(CurSet(CurNew, "code", body.code), "name", body.name),
                                "symbol", body.symbol),
                         "decimal_places", body.decimal_places)
            c1 == IF ~IsUndefined(body.active)
                  THEN CurSet(c0, "active", JBool(Truthy(body.active))) ELSE c0
            early == CurPost(body, currency, currencySeq)
            others == {d \in Clients \ {c} : reqs[d].pc # "idle"}
        IN /\ reqs[c].pc = "idle"
           /\ IF early.branch = "required"
              THEN /\ resp' = early.resp
                   /\ last' = Request("currency", "POST", <<>>, EmptyBody, early)
                   /\ UNCHANGED reqs
              ELSE \E v \in {CurValidate(c1)} :
                     IF IsError(v.err)
                     THEN /\ resp' = CurCatch(SaveWrap(v.err), "creation_failed")
                          /\ last' = [entity |-> "currency", op |-> "POST", param |-> <<>>,
                                      body |-> EmptyBody, branch |-> "thrown",
                                      err |-> SaveWrap(v.err)]
                          /\ UNCHANGED reqs
                     ELSE /\ reqs' = [d \in Clients |->
                                        IF d = c
                                        THEN [IdleRequest EXCEPT !.pc = "guid", !.o = v.o,
                                                  !.overlap = others # {}]
                                        ELSE IF d \in others
                                        THEN [reqs[d] EXCEPT !.overlap = TRUE]
                                        ELSE reqs[d]]
                          /\ UNCHANGED <<resp, last, app>>
           /\ UNCHANGED <<currency, currencySeq, country, countrySeq, obj, objLog, deleted,
                          nodeEnv, nRows, page, tenant, tenantSeq, registry, cycle, app>>

\* const guid = await this.guidGenerator(this.db.tableName, 6)
PostGuid ==
    \E c \in {d \in Clients : reqs[d].pc = "guid"} :
        \E guid \in {guidGenerator(currency, GuidLength)} :
           /\ IF guid = 0
              THEN PostThrows(c, Err("Error", CurMsg.guid))
              ELSE /\ reqs' = [reqs EXCEPT ![c].pc = "check", ![c].guid = guid,
                                           ![c].maxId = ModelMax(currency)]
                   /\ UNCHANGED <<resp, last, app>>
           /\ UNCHANGED <<currency, currencySeq, country, countrySeq, obj, objLog, deleted,
                          nodeEnv, nRows, page, tenant, tenantSeq, registry, cycle, app>>

\* const existingCode = await this.findByCode(this.code!)
PostCheck ==
    \E c \in {d \in Clients : reqs[d].pc = "check"} :
        \E existingCode \in {findOne(currency, "code", ToUpperCase(reqs[c].o.code.s))} :
           /\ IF ~IsNull(existingCode)
              THEN PostThrows(c, Err("Error", CurMsg.exists))
              ELSE /\ reqs' = [reqs EXCEPT ![c].pc = "insert"]
                   /\ UNCHANGED <<resp, last, app>>
           /\ UNCHANGED <<currency, currencySeq, country, countrySeq, obj, objLog, deleted,
                          nodeEnv, nRows, page, tenant, tenantSeq, registry, cycle, app>>

\* const lastID = await this.insertOne(...), and the rest of the handler
PostInsert ==
    \E c \in {d \in Clients : reqs[d].pc = "insert"} :
        LET o == reqs[c].o
            guid == reqs[c].guid
            orm == CurOrmValidate(o, {"guid", "code", "name", "symbol", "decimal_places"})
            data == [CurColumns([o EXCEPT !.guid = JNum(guid)]) EXCEPT !.active = TRUE]
        IN /\ IF IsError(orm)
              THEN PostThrows(c, orm) /\ UNCHANGED <<currency, currencySeq, app>>
              ELSE \E ins \in {insertOne(currency, currencySeq, data,
                                         CurDbMsg.unique, CurDbMsg.guidUnique)} :
                     /\ ins.seq <= MaxId + 1
                     /\ currency' = ins.tbl
                     /\ currencySeq' = ins.seq
                     /\ IF IsError(ins.err)
                        THEN PostThrows(c, ins.err)
                        ELSE PostEnds(c,
                                 handleCreated(CurToJSON([o EXCEPT !.id = JNum(ins.row.id),
                                                                   !.guid = JNum(guid)])),
                                 NoError, "created")
           /\ UNCHANGED <<country, countrySeq, obj, objLog, deleted,
                          nodeEnv, nRows, page, tenant, tenantSeq, registry, cycle, app>>

\* DELETE /:guid of a row the table holds
DeleteStored ==
    \E row \in currency :
        \E out \in {CurDeleteRoute(DigitsOf(row.guid), currency, currencySeq)} :
           /\ currency' = out.tbl
           /\ resp' = out.resp
           /\ last' = Request("currency", "DELETE", <<>>, EmptyBody, out)
           /\ UNCHANGED <<currencySeq, country, countrySeq, obj, objLog, deleted, nodeEnv,
                          nRows, page, tenant, tenantSeq, reqs, registry, cycle, app>>

NextConcurrent == PostStart \/ PostGuid \/ PostCheck \/ PostInsert \/ DeleteStored
SpecConcurrent == Init /\ [][NextConcurrent]_vars

\* the requests past their read of max(id)
HoldsGuid(c) == reqs[c].pc \in {"check", "insert"}

\* C13: the GUID a create computes is 10^5 + max(id) + 1 of the table as it
\* is when read, and reading it reserves nothing (table and sequence stay as
\* they are): a request that reads the same max(id) before the first one
\* inserts computes the same GUID.
C13_GuidNotReserved ==
    [][\A c \in Clients :
          (reqs[c].pc = "guid" /\ reqs'[c].pc = "check") =>
             /\ reqs'[c].guid = Pow10(GuidLength - 1) + ModelMax(currency) + 1
             /\ currency' = currency /\ currencySeq' = currencySeq
             /\ \A d \in Clients \ {c} :
                   (HoldsGuid(d) /\ reqs[d].maxId = ModelMax(currency))
                      => reqs'[c].guid = reqs[d].guid]_vars

\* two requests in flight that read the same max(id) and hold the same GUID
C13_Witness ==
    \E c, d \in Clients :
        /\ c # d /\ HoldsGuid(c) /\ HoldsGuid(d)
        /\ reqs[c].maxId = reqs[d].maxId /\ reqs[c].guid = reqs[d].guid

\* C14: the existence check passes exactly when the table holds no row with
\* the code at the moment of the read, and it writes nothing: a second
\* request with the same code, checked before the first inserts, passes too.
C14_CheckSeparateFromInsert ==
    [][\A c \in Clients :
          (reqs[c].pc = "check" /\ reqs'[c].pc # "check") =>
             /\ (reqs'[c].pc = "insert")
                   <=> ~(\E r \in currency : r.code = reqs[c].o.code.s)
             /\ currency' = currency /\ currencySeq' = currencySeq]_vars

\* two requests with the same code have both passed the check, neither has
\* inserted
C14_Witness ==
    \E c, d \in Clients :
        /\ c # d /\ reqs[c].pc = "insert" /\ reqs[d].pc = "insert"
        /\ reqs[c].o.code = reqs[d].o.code
        /\ ~(\E r \in currency : r.code = reqs[c].o.code.s)

(***************************************************************************)
(* TableInitializer: initialize(), the synchronisation it awaits table by  *)
(* table, cleanup().  registry.calls holds, for every call of initialize   *)
(* that is awaiting syncAllModels, the number of tables it has synchronised*)
(* registry.defined and registry.synced count the runs of defineAllModels  *)
(* and the calls of model.sync since the process started or cleaned up.    *)
(***************************************************************************)
ModelsDefined == 6
MaxCalls == 2

\* initialize(sequelize), up to its await
Initialize ==
    /\ registry.defined < MaxCalls /\ Len(registry.calls) < MaxCalls
    /\ IF registry.initialized
       THEN UNCHANGED registry
       ELSE registry' = [registry EXCEPT !.models = ModelsDefined,
                                         !.defined = @ + 1,
                                         !.calls = Append(@, 0)]
    /\ UNCHANGED <<currency, currencySeq, country, countrySeq, obj, objLog, resp, last,
                   deleted, nodeEnv, nRows, page, tenant, tenantSeq, reqs, cycle, app>>

\* a call of initialize goes on: the next model.sync of its loop over
\* this.models, or, the loop over, this.initialized = true
SyncNext ==
    \E i \in 1..Len(registry.calls) :
        LET rest == [j \in 1..(Len(registry.calls) - 1) |->
                        registry.calls[IF j < i THEN j ELSE j + 1]]
        IN /\ IF registry.calls[i] < registry.models
              THEN registry' = [registry EXCEPT !.calls[i] = @ + 1, !.synced = @ + 1]
              ELSE registry' = [registry EXCEPT !.calls = rest, !.initialized = TRUE]
           /\ UNCHANGED <<currency, currencySeq, country, countrySeq, obj, objLog, resp,
                          last, deleted, nodeEnv, nRows, page, tenant, tenantSeq, reqs,
                          cycle, app>>

\* model.sync throws: the call of initialize rethrows, initialized stays false
SyncThrows ==
    \E i \in 1..Len(registry.calls) :
        LET rest == [j \in 1..(Len(registry.calls) - 1) |->
                        registry.calls[IF j < i THEN j ELSE j + 1]]
        IN /\ registry.calls[i] < registry.models
           /\ registry' = [registry EXCEPT !.calls = rest, !.synced = @ + 1]
           /\ UNCHANGED <<currency, currencySeq, country, countrySeq, obj, objLog, resp,
                          last, deleted, nodeEnv, nRows, page, tenant, tenantSeq, reqs,
                          cycle, app>>

\* cleanup(): models.clear(), initialized = false
Cleanup ==
    /\ registry' = [registry EXCEPT !.models = 0, !.initialized = FALSE,
                                    !.defined = 0, !.synced = 0]
    /\ UNCHANGED <<currency, currencySeq, country, countrySeq, obj, objLog, resp, last,
                   deleted, nodeEnv, nRows, page, tenant, tenantSeq, reqs, cycle, app>>

NextRegistry == Initialize \/ SyncNext \/ SyncThrows \/ Cleanup
SpecRegistry == Init /\ [][NextRegistry]_vars

\* C15: between process start and cleanup the models are defined at most
\* once and every table is synchronised at most once, whatever calls of
\* initialize are made, also while an earlier call is synchronising.
C15_RegistryBuiltOnce ==
    registry.defined <= 1 /\ registry.synced <= ModelsDefined

(***************************************************************************)
(* Malformed ISO codes                                                     *)
(***************************************************************************)
\* s is n letters
IsoLetters(s, n) ==
    Len(s) = n /\ \A i \in 1..Len(s) : IsUpperCh(s[i]) \/ IsLowerCh(s[i])

MaxCents == 3
ToleranceCents == 1
BillingStatus == {"PENDING", "PROCESSING", "COMPLETED", "FAILED", "CANCELLED", "OVERDUE"}

\* Math.abs(total - (subtotal + tax)) > 0.01, computed in floating point: a
\* difference of exactly 0.01 comes out on either side of the tolerance
\* (0.03 - 0.02 < 0.01 < 0.07 - 0.06)
isCorrectTotal(r, roundsUp) ==
    LET d == r.total - (r.subtotal + r.tax)
        abs == IF d < 0 THEN 0 - d ELSE d
    IN ~(abs > ToleranceCents \/ (abs = ToleranceCents /\ roundsUp))

\* the attribute validators isRequiredForCompleted of invoice_generated_at
\* and payment_completed_at
isRequiredForCompleted(r) ==
    /\ ~(r.status = "COMPLETED" /\ ~r.invoiced)
    /\ ~(r.status = "COMPLETED" /\ ~r.paid)

\* a model validator without the rule for COMPLETED
statusDependentFields_NoCompletedRule(r) ==
    ~(r.status = "OVERDUE" /\ ~r.duePassed)

statusDependentFields(r) ==
    /\ r.status = "COMPLETED" => (r.invoiced /\ r.paid)
    /\ ~(r.status = "OVERDUE" /\ ~r.duePassed)

\* validateAdjustmentModel: the total is checked when subtotal_usd,
\* tax_amount_usd and total_amount_usd are all truthy
validateAdjustmentModel(data, roundsUp) ==
    IF data.subtotal # 0 /\ data.tax # 0 /\ data.total # 0
    THEN isCorrectTotal(data, roundsUp)
    ELSE TRUE

\* the records handed to validation
BillingRecords ==
    [kind : {"billing_cycle"}, subtotal : 0..MaxCents, tax : 0..MaxCents,
     total : 0..MaxCents, status : BillingStatus, invoiced : BOOLEAN, paid : BOOLEAN,
     duePassed : BOOLEAN, verdict : {""}]
    \cup [kind : {"license_adjustment"}, subtotal : 0..MaxCents, tax : 0..MaxCents,
          total : 0..MaxCents, status : {""}, invoiced : {FALSE}, paid : {FALSE},
          duePassed : {FALSE}, verdict : {""}]

\* Model.validate() of a billing cycle.  Whether a custom attribute
\* validator runs on a null value depends on the Sequelize release
BillingCycleValidate ==
    \E roundsUp \in BOOLEAN, runsOnNull \in BOOLEAN :
        /\ cycle.kind = "billing_cycle" /\ cycle.verdict = ""
        /\ cycle' = [cycle EXCEPT !.verdict =
                        IF /\ isCorrectTotal(cycle, roundsUp)
                           /\ (runsOnNull => isRequiredForCompleted(cycle))
                           /\ statusDependentFields(cycle)
                        THEN "accepted" ELSE "rejected"]
        /\ UNCHANGED <<currency, currencySeq, country, countrySeq, obj, objLog, resp, last,
                       deleted, nodeEnv, nRows, page, tenant, tenantSeq, reqs, registry, app>>

AdjustmentValidate ==
    \E roundsUp \in BOOLEAN :
        /\ cycle.kind = "license_adjustment" /\ cycle.verdict = ""
        /\ cycle' = [cycle EXCEPT !.verdict =
                        IF validateAdjustmentModel(cycle, roundsUp)
                        THEN "accepted" ELSE "rejected"]
        /\ UNCHANGED <<currency, currencySeq, country, countrySeq, obj, objLog, resp, last,
                       deleted, nodeEnv, nRows, page, tenant, tenantSeq, reqs, registry, app>>

InitBilling ==
    /\ InitData /\ nodeEnv = "production" /\ tenant = {} /\ tenantSeq = 0
    /\ cycle \in BillingRecords

NextBilling == BillingCycleValidate \/ AdjustmentValidate
SpecBilling == InitBilling /\ [][NextBilling]_vars

\* C17: a billing cycle or license adjustment that validation accepted has a
\* total within 0.01 of subtotal plus tax.
C17_TotalReconciled ==
    cycle.verdict = "accepted"
        => /\ cycle.total - (cycle.subtotal + cycle.tax) <= ToleranceCents
           /\ (cycle.subtotal + cycle.tax) - cycle.total <= ToleranceCents

\* C18: a billing cycle with status COMPLETED that validation accepted has
\* its invoice generation date and its payment completion date set.
C18_CompletedHasDates ==
    (cycle.kind = "billing_cycle" /\ cycle.status = "COMPLETED"
        /\ cycle.verdict = "accepted")
        => (cycle.invoiced /\ cycle.paid)

\* a COMPLETED billing cycle was accepted
C18_Witness ==
    /\ cycle.kind = "billing_cycle" /\ cycle.status = "COMPLETED"
    /\ cycle.verdict = "accepted"

(***************************************************************************)
(* GUIDs under overlapping and under serial requests                       *)
(***************************************************************************)
\* C19: whatever the interleaving of the create requests, the table never
\* holds two rows with the same GUID.
C19_GuidUnique ==
    \A r1, r2 \in currency : r1.guid = r2.guid => r1 = r2

\* an INSERT was refused because its GUID was already stored
C19_Witness ==
    /\ last.op = "POST" /\ last.branch = "thrown"
    /\ MessageIncludes(last.err.message, {CurDbMsg.guidUnique})
    /\ currency # {}

\* C20: for a create that no other create overlaps, the GUID computed is
\* greater than every GUID stored, when it is computed and when the row is
\* inserted, and the INSERT is not refused for its GUID.
C20_SerialGuidFresh ==
    [][\A c \in Clients :
          /\ (reqs[c].pc = "guid" /\ reqs'[c].pc = "check" /\ ~reqs[c].overlap)
                => \A r \in currency : reqs'[c].guid > r.guid
          /\ (reqs[c].pc = "insert" /\ reqs'[c].pc = "idle" /\ ~reqs[c].overlap)
                => /\ \A r \in currency : reqs[c].guid > r.guid
                   /\ ~MessageIncludes(last'.err.message, {CurDbMsg.guidUnique})]_vars

\* creates that nothing overlapped: the last one stored its row in a table
\* that held another row, after ids had been deleted or refused (its GUID is
\* below 10^5 + id)
C20_Witness ==
    /\ \A c \in Clients : reqs[c].pc = "idle" /\ ~reqs[c].overlap
    /\ last.op = "POST" /\ last.branch = "created"
    /\ Cardinality(currency) >= 2
    /\ \E r \in currency :
          /\ r.id = ModelMax(currency)
          /\ r.guid < Pow10(GuidLength - 1) + r.id

\* C21: a GUID that a deleted row carried is not carried by another row
\* later.
C21_GuidNeverReused ==
    \A d \in deleted : \A r \in currency : r.guid = d.guid => r.id = d.id

\* the documented format of a currency: a code of three capital letters, a
\* name of 2 to 50 characters, a symbol of 1 to 10, a number of decimal
\* places from 0 to 10, an active flag that is a boolean when present
CurDocumented(body) ==
    /\ body.code.t = "str" /\ Len(body.code.s) = CurrencyCodeLen /\ AllUpper(body.code.s)
    /\ body.name.t = "str" /\ Len(body.name.s) >= 2
    /\ Len(body.name.s) <= CurrencyOrmNameMax
    /\ body.symbol.t = "str" /\ Len(body.symbol.s) >= 1
    /\ Len(body.symbol.s) <= CurrencySymbolMax
    /\ body.decimal_places.t = "num" /\ body.decimal_places.n >= 0
    /\ body.decimal_places.n <= CurrencyDecimalMax
    /\ body.active.t \in {"undefined", "bool"}

\* C22: in every state of the table, a POST whose fields have the documented
\* format and whose code is not stored is answered 201 and its row is stored.
C22_WellFormedPostCreates ==
    \A body \in CurBodies.post :
        (CurDocumented(body) /\ ~(\E r \in currency : r.code = body.code.s))
            => LET out == CurPost(body, currency, currencySeq)
               IN /\ out.resp.status = CREATED
                  /\ \E r \in out.tbl : r.code = body.code.s

(***************************************************************************)
(* The application's life: App.start(), App.stop(), the shutdown handler   *)
(* of the signals, App.cleanup(), Db and the TableInitializer of           *)
(* license/database that app.ts imports.  start() and the handlers are     *)
(* split where they await; requests arrive while the server accepts them   *)
(* and are served one handler at a time.  The entry point calls start()    *)
(* once per process; a process that ended is followed by a new one over    *)
(* the same database.                                                      *)
(***************************************************************************)
MaxInflight == 2
MaxBoots == 2
LicenseModels == 14

\* what syncAllModels hands to model.sync()
syncOptions(env) ==
    IF env # "production" THEN [force |-> FALSE, alter |-> TRUE]
    ELSE [force |-> TRUE, alter |-> TRUE]

\* Model.sync(options) on a table and its sequence: force drops the table
\* before it is created again; alter changes columns and keeps the rows
ModelSync(tbl, seq, options) ==
    IF options.force THEN [tbl |-> {}, seq |-> 0] ELSE [tbl |-> tbl, seq |-> seq]

\* App.isRunning()
isRunning(a) ==
    a.server # "null" /\ ~a.isShuttingDown

\* TableInitializer.getModel(): TRUE when it returns a model, FALSE when it
\* throws
getModel(reg) ==
    reg.initialized /\ reg.models > 0

\* App.cleanup(): TableInitializer.cleanup() and Db.close()
cleanup_KeepsDb(reg, db) ==
    [registry |-> [reg EXCEPT !.models = 0, !.initialized = FALSE], db |-> db]
cleanup(reg, db) ==
    [registry |-> [reg EXCEPT !.models = 0, !.initialized = FALSE], db |-> "none"]

\* the promise around server.close() that stop() and the shutdown handler
\* await is resolved: there was no server, or it finished closing
ServerCloseResolved_NoWait(a) ==
    TRUE
ServerCloseResolved(a) ==
    a.server \in {"null", "closed"}

\* server.close(): a listening server stops accepting connections
ServerClose(server) ==
    IF server = "listening" THEN "closing" ELSE server

\* the process has not exited
Alive ==
    app.down # "exited" /\ app.pc # "exited"

\* start() up to its first await: Db.getInstance() assigns Db.instance and
\* awaits authenticate()
Start ==
    /\ Alive /\ app.pc = "new"
    /\ app' = [app EXCEPT !.pc = IF app.isShuttingDown THEN "catch" ELSE "auth",
                          !.db = IF app.isShuttingDown THEN app.db ELSE "open"]
    /\ UNCHANGED <<currency, currencySeq, country, countrySeq, obj, objLog, resp, last,
                   deleted, nodeEnv, nRows, page, tenant, tenantSeq, reqs, registry,
                   cycle>>

\* authenticate() answers: TableInitializer.initialize() defines the models
\* and awaits the synchronisation, or the error reaches start()'s catch
Authenticate ==
    /\ Alive /\ app.pc = "auth"
    /\ \E ok \in BOOLEAN :
        /\ app' = [app EXCEPT !.pc = IF ok THEN "sync" ELSE "catch"]
        /\ registry' = IF ok THEN [registry EXCEPT !.models = LicenseModels,
                                                   !.defined = LicenseModels]
                       ELSE registry
    /\ UNCHANGED <<currency, currencySeq, country, countrySeq, obj, objLog, resp, last,
                   deleted, nodeEnv, nRows, page, tenant, tenantSeq, reqs, cycle>>

\* syncAllModels() synchronises every table; then the routes are set up and
\* app.listen() is called, which assigns this.server.  A synchronisation
\* that throws does so before or after the currency table had its turn
SyncAllModels ==
    /\ Alive /\ app.pc = "sync"
    /\ LET synced == ModelSync(currency, currencySeq, syncOptions(nodeEnv))
       IN \/ /\ currency' = synced.tbl /\ currencySeq' = synced.seq
             /\ registry' = [registry EXCEPT !.initialized = TRUE,
                                             !.synced = LicenseModels]
             /\ app' = [app EXCEPT !.pc = "listen", !.server = "bound"]
          \/ /\ \E reached \in BOOLEAN :
                  /\ currency' = IF reached THEN synced.tbl ELSE currency
                  /\ currencySeq' = IF reached THEN synced.seq ELSE currencySeq
             /\ app' = [app EXCEPT !.pc = "catch"]
             /\ UNCHANGED registry
    /\ UNCHANGED <<country, countrySeq, obj, objLog, resp, last, deleted, nodeEnv,
                   nRows, page, tenant, tenantSeq, reqs, cycle>>

\* the server listens, the shutdown handlers are registered and start()
\* returns; or the port cannot be bound and the promise is rejected
Listen ==
    /\ Alive /\ app.pc = "listen"
    /\ \/ app' = [app EXCEPT !.pc = "running", !.server = "listening"]
       \/ app' = [app EXCEPT !.pc = "catch", !.server = "failed"]
    /\ UNCHANGED <<currency, currencySeq, country, countrySeq, obj, objLog, resp, last,
                   deleted, nodeEnv, nRows, page, tenant, tenantSeq, reqs, registry,
                   cycle>>

\* start()'s catch: cleanup() is awaited, then the error is thrown to the
\* caller
StartCatch ==
    /\ Alive /\ app.pc = "catch"
    /\ LET c == cleanup(registry, app.db)
       IN /\ registry' = c.registry
          /\ app' = [app EXCEPT !.pc = "failed", !.db = c.db]
    /\ UNCHANGED <<currency, currencySeq, country, countrySeq, obj, objLog, resp, last,
                   deleted, nodeEnv, nRows, page, tenant, tenantSeq, reqs, cycle>>

\* main() catches the error of start() and calls process.exit(1)
MainExit ==
    /\ Alive /\ app.pc = "failed"
    /\ app' = [app EXCEPT !.pc = "exited", !.inflight = 0]
    /\ UNCHANGED <<currency, currencySeq, country, countrySeq, obj, objLog, resp, last,
                   deleted, nodeEnv, nRows, page, tenant, tenantSeq, reqs, registry,
                   cycle>>

\* a request reaches the listening server
Arrive ==
    /\ Alive /\ app.server = "listening" /\ app.inflight < MaxInflight
    /\ app' = [app EXCEPT !.inflight = @ + 1]
    /\ UNCHANGED <<currency, currencySeq, country, countrySeq, obj, objLog, resp, last,
                   deleted, nodeEnv, nRows, page, tenant, tenantSeq, reqs, registry,
                   cycle>>

\* the handler of a request in flight runs (POST /currency) and answers; a
\* handler that finds the registry cleaned up gets getModel()'s error
Serve ==
    /\ Alive /\ app.inflight > 0
    /\ \/ /\ getModel(registry)
          /\ \E body \in ConcBodies :
               LET out == CurPost(body, currency, currencySeq)
               IN /\ out.seq <= MaxId
                  /\ currency' = out.tbl /\ currencySeq' = out.seq /\ resp' = out.resp
          /\ app' = [app EXCEPT !.inflight = @ - 1]
       \/ /\ ~getModel(registry)
          /\ app' = [app EXCEPT !.inflight = @ - 1, !.orphaned = TRUE]
          /\ UNCHANGED <<currency, currencySeq, resp>>
    /\ UNCHANGED <<country, countrySeq, obj, objLog, last, deleted, nodeEnv, nRows,
                   page, tenant, tenantSeq, reqs, registry, cycle>>

\* the closing server has no connection left: its 'close' event fires
Drained ==
    /\ Alive /\ app.server = "closing" /\ app.inflight = 0
    /\ app' = [app EXCEPT !.server = "closed"]
    /\ UNCHANGED <<currency, currencySeq, country, countrySeq, obj, objLog, resp, last,
                   deleted, nodeEnv, nRows, page, tenant, tenantSeq, reqs, registry,
                   cycle>>

\* stop() is called on the started application: it closes the server and
\* awaits the end of that
Stop ==
    /\ Alive /\ app.pc = "running" /\ app.halt = ""
    /\ app' = [app EXCEPT !.halt = "closing", !.server = ServerClose(app.server)]
    /\ UNCHANGED <<currency, currencySeq, country, countrySeq, obj, objLog, resp, last,
                   deleted, nodeEnv, nRows, page, tenant, tenantSeq, reqs, registry,
                   cycle>>

\* stop() after its await: cleanup(), then it returns
StopClosed ==
    /\ Alive /\ app.halt = "closing" /\ ServerCloseResolved(app)
    /\ LET c == cleanup(registry, app.db)
       IN /\ registry' = c.registry
          /\ app' = [app EXCEPT !.halt = "done", !.db = c.db]
    /\ UNCHANGED <<currency, currencySeq, country, countrySeq, obj, objLog, resp, last,
                   deleted, nodeEnv, nRows, page, tenant, tenantSeq, reqs, cycle>>

\* SIGTERM, SIGINT, an uncaught exception or an unhandled rejection reaches
\* the handler that start() registered: the first one sets isShuttingDown,
\* closes the server and awaits the end of that; a later one returns
Shutdown ==
    /\ Alive /\ app.pc = "running" /\ ~app.isShuttingDown
    /\ app' = [app EXCEPT !.isShuttingDown = TRUE, !.down = "closing",
                          !.server = ServerClose(app.server)]
    /\ UNCHANGED <<currency, currencySeq, country, countrySeq, obj, objLog, resp, last,
                   deleted, nodeEnv, nRows, page, tenant, tenantSeq, reqs, registry,
                   cycle>>

\* the shutdown handler after its await: cleanup(), then process.exit(0)
ShutdownClosed ==
    /\ Alive /\ app.down = "closing" /\ ServerCloseResolved(app)
    /\ LET c == cleanup(registry, app.db)
       IN /\ registry' = c.registry
          /\ app' = [app EXCEPT !.down = "exited", !.db = c.db]
    /\ UNCHANGED <<currency, currencySeq, country, countrySeq, obj, objLog, resp, last,
                   deleted, nodeEnv, nRows, page, tenant, tenantSeq, reqs, cycle>>

\* the service is started again: a new process, whose statics are fresh,
\* over the same database
Restart ==
    /\ ~Alive \/ app.halt = "done"
    /\ app.boots < MaxBoots
    /\ app' = [NewApp EXCEPT !.boots = app.boots + 1, !.orphaned = app.orphaned]
    /\ registry' = Unregistered
    /\ UNCHANGED <<currency, currencySeq, country, countrySeq, obj, objLog, resp, last,
                   deleted, nodeEnv, nRows, page, tenant, tenantSeq, reqs, cycle>>

\* the persistence operations of BaseModel, and Revision.getRevision
PersistOps ==
    {"insertOne", "findOne", "findAll", "updateOne", "deleteOne", "count",
     "findLastModification", "guidGenerator", "getRevision"}

\* how a persistence operation ends for its caller: "result" when it returns
\* what the table answers, "error" when it throws, "null" when it returns
\* null, "default" when getRevision returns the revision '202501010000'.
\* insertOne, findOne, findAll, updateOne, deleteOne and count let
\* getModel()'s error through; findLastModification and guidGenerator catch
\* it and return null; getRevision turns that null into the default
BaseOp(op, reg) ==
    IF getModel(reg) THEN "result"
    ELSE IF op \in {"findLastModification", "guidGenerator"} THEN "null"
    ELSE IF op = "getRevision" THEN "default"
    ELSE "error"

\* a persistence operation is called, at any moment of the process's life
Persist ==
    /\ Alive
    /\ \E op \in PersistOps :
         app' = [app EXCEPT !.op = [name |-> op, ready |-> getModel(registry),
                                    outcome |-> BaseOp(op, registry)]]
    /\ UNCHANGED <<currency, currencySeq, country, countrySeq, obj, objLog, resp, last,
                   deleted, nodeEnv, nRows, page, tenant, tenantSeq, reqs, registry,
                   cycle>>

InitLifecycle ==
    /\ InitData /\ nodeEnv \in {"production", "development", ""}
    /\ tenant = {} /\ tenantSeq = 0 /\ cycle = NoCycle

NextLifecycle ==
    \/ Start \/ Authenticate \/ SyncAllModels \/ Listen \/ StartCatch \/ MainExit
    \/ Arrive \/ Serve \/ Drained \/ Stop \/ StopClosed \/ Shutdown \/ ShutdownClosed
    \/ Restart \/ Persist

SpecLifecycle == InitLifecycle /\ [][NextLifecycle]_vars

\* C23: the table initialisation of a startup keeps every row the table
\* held, in every environment mode.
C23_StartupKeepsRows ==
    [][app.pc = "sync" => currency \subseteq currency']_vars

\* C24: while a request is in flight the registry is initialised and the
\* database connection is open, and no request was ever served by a
\* cleaned-up registry: cleanup waits for the server to finish closing.
C24_CleanupAfterServerClosed ==
    /\ app.inflight > 0 => (getModel(registry) /\ app.db = "open")
    /\ ~app.orphaned

\* a shutdown has begun while a request is still in flight
C24_Witness ==
    app.isShuttingDown /\ app.server = "closing" /\ app.inflight > 0

\* C25: isRunning() is true exactly when the HTTP server is listening.
C25_RunningIffListening ==
    Alive => (isRunning(app) <=> app.server = "listening")

C27_UninitialisedOpFails ==
    (app.op.name # "" /\ ~app.op.ready) => app.op.outcome = "error"

(***************************************************************************)
(* DELETE /currency/:guid as the handler runs it: the row is loaded by its *)
(* GUID, then currency.delete() removes the row with the loaded id.  The   *)
(* requests of other clients run between the two database calls.           *)
(***************************************************************************)
\* POST / of a well-formed or malformed body, from validation to response
CreateStored ==
    \E body \in ConcBodies :
        \E out \in {CurPost(body, currency, currencySeq)} :
           /\ out.seq <= MaxId
           /\ currency' = out.tbl
           /\ currencySeq' = out.seq
           /\ resp' = out.resp
           /\ last' = Request("currency", "POST", <<>>, body, out)
           /\ UNCHANGED <<country, countrySeq, obj, objLog, deleted, nodeEnv, nRows, page,
                          tenant, tenantSeq, reqs, registry, cycle, app>>

\* the handler up to the answer of Currency._load(guid, true): a parameter
\* that is no number is answered 400, a GUID no row carries 404; otherwise
\* the handler holds the loaded object and goes on to delete()
DeleteLoad ==
    \E c \in {d \in Clients : reqs[d].pc = "idle"}, param \in GuidParams :
        LET guid == ParseInt(param)
            row == CurLoadRow(currency, guid, TRUE, FALSE)
            early == CurDeleteRoute(param, currency, currencySeq)
            others == {d \in Clients \ {c} : reqs[d].pc = "loaded" /\ reqs[d].guid = guid}
        IN IF early.branch \in {"invalid_guid", "not_found"}
           THEN /\ resp' = early.resp
                /\ last' = Request("currency", "DELETE", param, EmptyBody, early)
                /\ reqs' = [reqs EXCEPT ![c] = IdleRequest]
                /\ UNCHANGED <<currency, currencySeq, country, countrySeq, obj, objLog,
                               deleted, nodeEnv, nRows, page, tenant, tenantSeq, registry,
                               cycle, app>>
           ELSE /\ reqs' = [d \in Clients |->
                              IF d = c
                              THEN [IdleRequest EXCEPT !.pc = "loaded", !.guid = guid,
                                        !.o = CurHydrate(CurNew, row),
                                        !.overlap = others # {}]
                              ELSE IF d \in others
                              THEN [reqs[d] EXCEPT !.overlap = TRUE]
                              ELSE reqs[d]]
                /\ UNCHANGED <<currency, currencySeq, country, countrySeq, obj, objLog,
                               resp, last, deleted, nodeEnv, nRows, page, tenant,
                               tenantSeq, registry, cycle, app>>

\* currency.delete() and the response: 200 when a row was removed, 500
\* G.savedError when none was
DeleteTrash ==
    \E c \in {d \in Clients : reqs[d].pc = "loaded"} :
        LET o == reqs[c].o
            d == CurDelete(o, currency)
            r == IF d.deleted
                 THEN handleSuccess([kind |-> "deleted", guid |-> reqs[c].guid,
                                     code |-> o.code, name |-> o.name], SUCCESS)
                 ELSE handleError(INTERNAL_ERROR,
                                  ErrBody("data_saved_error", "items not saved"))
        IN /\ currency' = d.tbl
           /\ resp' = r
           /\ last' = [entity |-> "currency", op |-> "DELETE", param |-> DigitsOf(reqs[c].guid),
                       body |-> EmptyBody, err |-> NoError,
                       branch |-> IF d.deleted THEN "deleted" ELSE "not_deleted"]
           /\ deleted' = deleted \cup {[id |-> x.id, guid |-> x.guid, code |-> x.code] :
                                         x \in currency \ d.tbl}
           /\ reqs' = [reqs EXCEPT ![c] = [IdleRequest EXCEPT !.overlap = reqs[c].overlap]]
           /\ UNCHANGED <<currencySeq, country, countrySeq, obj, objLog, nodeEnv, nRows,
                          page, tenant, tenantSeq, registry, cycle, app>>

NextDelete == CreateStored \/ DeleteLoad \/ DeleteTrash
SpecDelete == Init /\ [][NextDelete]_vars

\* C28: a DELETE that overlapped another DELETE for the same GUID is answered
\* with success when it removed the row and with 404 when it did not.
C28_OverlappingDeleteAnswers ==
    [][\A c \in Clients :
          (reqs[c].pc = "loaded" /\ reqs'[c].pc = "idle" /\ reqs[c].overlap) =>
             \/ resp'.status = SUCCESS /\ currency' # currency
             \/ resp'.status = NOT_FOUND /\ currency' = currency]_vars

====
